---- MODULE Spec2Model ----
(***************************************************************************)
(* A model of ComprehensiveDeltaStrategy.cpp (Smoothieware): the probing   *)
(* grid, the surface correction model (depth map and its enable flags),    *)
(* the energy function and the iterative (G32) calibration loop.           *)
(*                                                                         *)
(* Numbers.  The firmware computes in 32-bit floats.  Here lengths on the  *)
(* bed (X, Y, probe_radius) are integers in millimetres, depths are        *)
(* integers in micrometres, and every quotient the code forms is kept as   *)
(* an exact fraction (a numerator with a stated denominator), so that no   *)
(* property holds or fails because of a rounding the model introduced.     *)
(* sqrt is monotone, so a comparison of two distances is modelled as the   *)
(* comparison of their squares.                                            *)
(***************************************************************************)
EXTENDS Integers, Sequences, FiniteSets, TLC

VARIABLES
    probe_radius,       \* this->probe_radius (mm)
    probe_offset,       \* <<probe_offset_x, probe_offset_y>> (mm)
    test_point,         \* test_point[i] = <<x, y>>, i in 0..DM_GRID_ELEMENTS-1
    active_point,       \* active_point[i], the tag of grid point i
    surface_transform,  \* the surface correction model (struct surface_transform)
    depth_map,          \* depth_map[i] = [abs |-> , rel |-> ] (class member)
    sd_file,            \* /sd/dm_surface_transform: NoFile or the sequence of its values
    method_prefix_idx,  \* index of the top of the method-prefix stack
    last,               \* the command that returned last, and what it returned
    nearest,            \* the last find_nearest_test_point() call: [pos, idx]
    bili,               \* the last get_adjust_z() call (struct bili and the result)
    energy,             \* the last calc_energy() call: [cartesian, mu, n]
    ic,                 \* iterative_calibration(): its locals, the trim store, delta radius
    hc,                 \* heuristic_calibration(): its locals and the caltype multipliers
    foc,                \* the last find_optimal_config() call: its range and result
    best_probe_calibration, \* struct best_probe_calibration
    pr,                 \* measure_probe_repeatability(): its locals while it samples
    calc                \* the last call of a helper made on its own: [fn, ...]

vars == <<probe_radius, probe_offset, test_point, active_point, surface_transform,
          depth_map, sd_file, method_prefix_idx, last, nearest, bili, energy, ic,
          hc, foc, best_probe_calibration, pr, calc>>

\* What only the calibration routines and the repeatability test touch.
calib_vars == <<hc, foc, best_probe_calibration, pr, calc>>

(***************************************************************************)
(* Compile-time constants of the strategy                                  *)
(***************************************************************************)
\* The probing grid is 5x5 (file header, "To Do": test_point is 200 bytes,
\* active_point 100 bytes, "Increase probing grid size to 7x7, rather than 5x5").
DM_GRID_DIMENSION == 5
DM_GRID_ELEMENTS == DM_GRID_DIMENSION * DM_GRID_DIMENSION

GridIdx == 0 .. (DM_GRID_ELEMENTS - 1)

\* enum of active_point[] tags
TP_CENTER == "TP_CENTER"
TP_ACTIVE == "TP_ACTIVE"
TP_ACTIVE_NEIGHBOR == "TP_ACTIVE_NEIGHBOR"
TP_INACTIVE == "TP_INACTIVE"

\* float lowest = 999 in find_nearest_test_point()
FNTP_LOWEST_INIT == 999

Abs(n) == IF n < 0 THEN -n ELSE n
Min2(a, b) == IF a < b THEN a ELSE b
Max2(a, b) == IF a > b THEN a ELSE b

\* clamp(n, lower, upper) == std::max(lower, std::min(n, upper))
clamp(n, lower, upper) == Max2(lower, Min2(n, upper))

(***************************************************************************)
(* Geometry grid: init_test_points() and find_nearest_test_point()         *)
(***************************************************************************)
\* distance2D(first, second), squared: sqrt(pow(dx, 2) + pow(dy, 2))^2
distance2D_sq(first, second) ==
    (second[1] - first[1]) * (second[1] - first[1]) +
    (second[2] - first[2]) * (second[2] - first[2])

\* point_spacing = (probe_radius * 2) / (DM_GRID_DIMENSION - 1)
point_spacing(r) == (r * 2) \div (DM_GRID_DIMENSION - 1)

\* The first loop of init_test_points(): rows from y = +r down to -r, and in each
\* row x from -r up to +r, n counting row-major.
grid_points(r) ==
    [n \in GridIdx |->
        << (-r) + (n % DM_GRID_DIMENSION) * point_spacing(r),
           r - (n \div DM_GRID_DIMENSION) * point_spacing(r) >>]

\* neighboring_probe_radius = probe_radius + (probe_radius / ((DM_GRID_DIMENSION - 1) / 2))
\* ((DM_GRID_DIMENSION - 1) / 2 is an integer division in the source)
neighboring_probe_radius(r) == r + (r \div ((DM_GRID_DIMENSION - 1) \div 2))

\* The classification "as the spec words it": a neighbour may lie on neither an outer
\* row nor an outer column.
classify_excluding_columns(r, tp, y, x) ==
    LET dm_pos == (y * DM_GRID_DIMENSION) + x
        d2 == distance2D_sq(<<0, 0>>, tp[dm_pos])
    IN  IF d2 <= r * r
        THEN TP_ACTIVE
        ELSE IF /\ d2 <= neighboring_probe_radius(r) * neighboring_probe_radius(r)
                /\ y # 0
                /\ y # (DM_GRID_DIMENSION - 1)
                /\ x # 0
                /\ x # (DM_GRID_DIMENSION - 1)
             THEN TP_ACTIVE_NEIGHBOR
             ELSE TP_INACTIVE

\* A classification that takes the radius as exclusive.
classify_strict_radius(r, tp, y, x) ==
    LET dm_pos == (y * DM_GRID_DIMENSION) + x
        d2 == distance2D_sq(<<0, 0>>, tp[dm_pos])
    IN  IF d2 < r * r
        THEN TP_ACTIVE
        ELSE IF /\ d2 <= neighboring_probe_radius(r) * neighboring_probe_radius(r)
                /\ y # 0
                /\ y # (DM_GRID_DIMENSION - 1)
             THEN TP_ACTIVE_NEIGHBOR
             ELSE TP_INACTIVE

\* case PSS_CIRCLE of the second loop of init_test_points(), for grid row y and
\* column x (surface_shape is always PSS_CIRCLE: handleConfig() sets it).
classify_point(r, tp, y, x) ==
    LET dm_pos == (y * DM_GRID_DIMENSION) + x
        d2 == distance2D_sq(<<0, 0>>, tp[dm_pos])
    IN  IF d2 <= r * r
        THEN TP_ACTIVE
        ELSE IF /\ d2 <= neighboring_probe_radius(r) * neighboring_probe_radius(r)
                /\ y # 0
                /\ y # (DM_GRID_DIMENSION - 1)
                /\ y # -(DM_GRID_DIMENSION - 1)
             THEN TP_ACTIVE_NEIGHBOR
             ELSE TP_INACTIVE

\* The loop of find_nearest_test_point() from index i on.
RECURSIVE fntp_loop(_, _, _, _, _, _)
fntp_loop(i, pos, tp, ap, lowest_sq, lowest_idx) ==
    IF i >= DM_GRID_ELEMENTS
    THEN lowest_idx
    ELSE LET dist_sq == distance2D_sq(pos, tp[i])
         IN  IF (ap[i] = TP_ACTIVE \/ ap[i] = TP_CENTER) /\ dist_sq < lowest_sq
             THEN fntp_loop(i + 1, pos, tp, ap, dist_sq, i)
             ELSE fntp_loop(i + 1, pos, tp, ap, lowest_sq, lowest_idx)

\* find_nearest_test_point(pos): lowest = 999, lowest_idx = 0, then the loop.
find_nearest_test_point(pos, tp, ap) ==
    fntp_loop(0, pos, tp, ap, FNTP_LOWEST_INIT * FNTP_LOWEST_INIT, 0)

\* init_test_points(): the tags after the second loop and the marking of the origin.
init_active_points(r) ==
    LET tp == grid_points(r)
        ap == [i \in GridIdx |->
                  classify_point(r, tp, i \div DM_GRID_DIMENSION, i % DM_GRID_DIMENSION)]
    IN  [ap EXCEPT ![find_nearest_test_point(<<0, 0>>, tp, ap)] = TP_CENTER]

(***************************************************************************)
(* Floats that may be garbage.  A float read from memory nobody wrote (an  *)
(* uninitialised stack array, an address past the end of the depth array)  *)
(* is any bit pattern: some finite number, or a NaN.  NaN is a value apart *)
(* from every depth; arithmetic propagates it (0 * NaN = NaN).             *)
(***************************************************************************)
NaN == 1000 * 1000 * 1000
FAdd(a, b) == IF a = NaN \/ b = NaN THEN NaN ELSE a + b
FMul(a, b) == IF a = NaN \/ b = NaN THEN NaN ELSE a * b

\* What an uninitialised or out-of-bounds float may read as (micrometres, or NaN).
GarbageFloats == {0, 777, NaN}

(***************************************************************************)
(* The probe and the bed (the environment of a surface scan)               *)
(***************************************************************************)
\* ZProbe::zsteps_to_mm(steps) = steps / steps_per_mm, here in micrometres.
Z_STEPS_PER_MM == 100
zsteps_to_mm(steps) == (steps * 1000) \div Z_STEPS_PER_MM

\* A bed: the step count the probe travels before it triggers at (x, y).
\* base: at the origin; ax, ay: tilt (steps per mm); dc: a dent at the origin only.
run_probe_steps(bed, x, y) ==
    bed.base + bed.ax * x + bed.ay * y + (IF x = 0 /\ y = 0 THEN bed.dc ELSE 0)

\* do_probe_at(steps, x, y) with probe_smoothing = 1, once run_probe() has read
\* `steps`: false when run_probe() fails (run_ok = FALSE) or when the reading is below
\* 100 steps.
probe_result(steps, run_ok) == [ok |-> run_ok /\ ~(steps < 100), steps |-> steps]

do_probe_at(bed, x, y, run_ok) == probe_result(run_probe_steps(bed, x, y), run_ok)

\* Where a scan's probe fails: nowhere, while priming, at the centre, or at the
\* probe made for grid point i.
NoFail == [site |-> "none", i |-> 0]
FailAt(site) == [site |-> site, i |-> 0]
FailAtPoint(i) == [site |-> "point", i |-> i]

(***************************************************************************)
(* Method prefixes: push_prefix() / pop_prefix()                           *)
(***************************************************************************)
\* Size of the prefix stack (ComprehensiveDeltaStrategy.h); push_prefix() tests it.
MP_MAX_PREFIXES == 3
push_prefix(idx) == IF idx + 1 < MP_MAX_PREFIXES THEN idx + 1 ELSE idx
pop_prefix(idx) == IF idx > 0 THEN idx - 1 ELSE idx

(***************************************************************************)
(* depth_map_print_surface()                                               *)
(***************************************************************************)
\* zero_depth_maps()
zero_depth_maps == [i \in GridIdx |-> [abs |-> 0, rel |-> 0]]

\* floor(sqrt(n)) for 0 <= n <= bound * bound
isqrt(n, bound) == CHOOSE k \in 0 .. bound : k * k <= n /\ n < (k + 1) * (k + 1)

\* FIRST PASS from index i on.  s = [ok, dm, cart, written, probed]: dm is
\* depth_map[], cart the Z column of the caller's cartesian[], written the indices of
\* cart this call assigned (the caller's array is not initialised), probed the
\* do_probe_at() calls so far, in order: the grid point each was made for and where.
RECURSIVE dmps_first_pass(_, _, _, _, _, _, _)
dmps_first_pass(i, tp, ap, bed, fail_at, origin_steps, s) ==
    IF i >= DM_GRID_ELEMENTS \/ ~s.ok
    THEN s
    ELSE IF ap[i] = TP_ACTIVE
         THEN LET p == do_probe_at(bed, tp[i][1], tp[i][2], fail_at # FailAtPoint(i))
                  rel == zsteps_to_mm(origin_steps - p.steps)
              IN  IF ~p.ok
                  THEN [s EXCEPT !.ok = FALSE,
                                 !.probed = Append(@, [i |-> i, at |-> tp[i]])]
                  ELSE dmps_first_pass(i + 1, tp, ap, bed, fail_at, origin_steps,
                          [s EXCEPT !.dm[i] = [abs |-> zsteps_to_mm(p.steps), rel |-> rel],
                                    !.cart[i] = rel,
                                    !.written = @ \cup {i},
                                    !.probed = Append(@, [i |-> i, at |-> tp[i]])])
         ELSE dmps_first_pass(i + 1, tp, ap, bed, fail_at, origin_steps, s)

\* SECOND PASS, extrapolate_neighbors = true, from index i on.
RECURSIVE dmps_extrapolate(_, _, _, _, _, _, _, _)
dmps_extrapolate(i, r, tp, ap, bed, fail_at, origin_steps, s) ==
    IF i >= DM_GRID_ELEMENTS \/ ~s.ok
    THEN s
    ELSE IF ap[i] = TP_ACTIVE_NEIGHBOR
         THEN LET root == isqrt((r * r) - (tp[i][2] * tp[i][2]), r)
                  right == tp[i][1] > 0
                  active_idx == IF right THEN i - 1 ELSE i + 1
                  coords == << IF right THEN root ELSE -root, tp[i][2] >>
                  p == do_probe_at(bed, coords[1], coords[2], fail_at # FailAtPoint(i))
                  active_abs == s.dm[active_idx].abs
                  rise_abs == zsteps_to_mm(p.steps) - active_abs
                  dist_active_to_extrap == Abs(tp[i][1] - tp[active_idx][1])
                  dist_active_to_probed == Abs(coords[1] - tp[active_idx][1])
                  extrap_abs == active_abs +
                                ((rise_abs * dist_active_to_extrap) \div dist_active_to_probed)
                  extrap_rel == zsteps_to_mm(origin_steps) - extrap_abs
              IN  IF ~p.ok
                  THEN [s EXCEPT !.ok = FALSE,
                                 !.probed = Append(@, [i |-> i, at |-> coords])]
                  ELSE dmps_extrapolate(i + 1, r, tp, ap, bed, fail_at, origin_steps,
                          [s EXCEPT !.dm[i] = [abs |-> extrap_abs, rel |-> extrap_rel],
                                    !.cart[i] = extrap_rel,
                                    !.written = @ \cup {i},
                                    !.probed = Append(@, [i |-> i, at |-> coords])])
         ELSE dmps_extrapolate(i + 1, r, tp, ap, bed, fail_at, origin_steps, s)

\* SECOND PASS, extrapolate_neighbors = false.
dmps_zero_neighbors(ap, s) ==
    [s EXCEPT !.dm = [i \in GridIdx |->
                         IF ap[i] = TP_ACTIVE_NEIGHBOR THEN [abs |-> 0, rel |-> 0] ELSE @[i]],
              !.cart = [i \in GridIdx |-> IF ap[i] = TP_ACTIVE_NEIGHBOR THEN 0 ELSE @[i]],
              !.written = @ \cup {i \in GridIdx : ap[i] = TP_ACTIVE_NEIGHBOR}]

\* depth_map_print_surface(cartesian, ..., extrapolate_neighbors).  dm is depth_map[]
\* on entry, garbage what the caller's uninitialised cartesian[] holds.  The pushes
\* and pops of the method prefix inside are paired on every return path.
dmps_second_pass(r, tp, ap, bed, fail_at, origin_steps, extrapolate_neighbors, s) ==
    IF ~s.ok
    THEN s
    ELSE IF extrapolate_neighbors
         THEN dmps_extrapolate(0, r, tp, ap, bed, fail_at, origin_steps, s)
         ELSE dmps_zero_neighbors(ap, s)

\* do_probe_at(origin_steps, 0, 0), made for center_point.
dmps_origin_probed(s, tp, ap) ==
    [s EXCEPT !.probed = Append(@, [i |-> find_nearest_test_point(<<0, 0>>, tp, ap),
                                    at |-> <<0, 0>>])]

\* A scan that handles the neighbours before it probes the active points.
dmps_neighbors_first(r, tp, ap, bed, fail_at, extrapolate_neighbors, s0, origin) ==
    IF fail_at = FailAt("prime")
    THEN [s0 EXCEPT !.ok = FALSE]
    ELSE IF ~origin.ok
         THEN [dmps_origin_probed(s0, tp, ap) EXCEPT !.ok = FALSE]
         ELSE dmps_first_pass(0, tp, ap, bed, fail_at, origin.steps,
                 dmps_second_pass(r, tp, ap, bed, fail_at, origin.steps,
                     extrapolate_neighbors,
                     [dmps_origin_probed(s0, tp, ap)
                         EXCEPT !.dm[find_nearest_test_point(<<0, 0>>, tp, ap)] =
                                    [abs |-> zsteps_to_mm(origin.steps), rel |-> 0]]))

dmps_from_origin(r, tp, ap, bed, fail_at, extrapolate_neighbors, s0, origin) ==
    IF fail_at = FailAt("prime")
    THEN [s0 EXCEPT !.ok = FALSE]
    ELSE IF ~origin.ok
         THEN [dmps_origin_probed(s0, tp, ap) EXCEPT !.ok = FALSE]
         ELSE dmps_second_pass(r, tp, ap, bed, fail_at, origin.steps,
                 extrapolate_neighbors,
                 dmps_first_pass(0, tp, ap, bed, fail_at, origin.steps,
                     [dmps_origin_probed(s0, tp, ap)
                         EXCEPT !.dm[find_nearest_test_point(<<0, 0>>, tp, ap)] =
                                    [abs |-> zsteps_to_mm(origin.steps), rel |-> 0]]))

depth_map_print_surface(r, tp, ap, dm, bed, fail_at, extrapolate_neighbors, garbage) ==
    dmps_from_origin(r, tp, ap, bed, fail_at, extrapolate_neighbors,
        [ok |-> TRUE, dm |-> dm, cart |-> [i \in GridIdx |-> garbage], written |-> {},
         probed |-> <<>>],
        do_probe_at(bed, 0, 0, fail_at # FailAt("center")))

(***************************************************************************)
(* The surface correction model: handleConfig(), initDepthMapRAM(),        *)
(* G31 (handle_depth_mapping_calibration), M667                            *)
(* (handle_shimming_and_depth_correction), and what G32 does to it         *)
(***************************************************************************)
ZeroDepths == [i \in GridIdx |-> 0]

\* initDepthMapRAM(): frees the old array, allocates a new one (AHB0.alloc may
\* return nullptr: alloc_ok = FALSE) and zeroes it.
initDepthMapRAM(st, alloc_ok) ==
    IF alloc_ok
    THEN [st EXCEPT !.depth_ptr = "heap", !.depth = ZeroDepths]
    ELSE [st EXCEPT !.depth_ptr = "nullptr", !.depth = ZeroDepths]

\* set_adjust_function(on)
set_adjust_function(st, on) == [st EXCEPT !.active = on]

\* set_virtual_shimming(x, y, z): stores the three heights; unless all are zero it
\* also enables the plane and the adjust function.  (The normal vector and d that
\* it derives are not part of this model.)
set_virtual_shimming(st, x, y, z) ==
    IF x = 0 /\ y = 0 /\ z = 0
    THEN [st EXCEPT !.tri_z = <<x, y, z>>]
    ELSE [st EXCEPT !.tri_z = <<x, y, z>>, !.plane_enabled = TRUE, !.active = TRUE]

\* "Propagate values outward from circle to edge" (G31 A), step k of the two nested
\* loops: row y = k \div w, x = k % w with w = (DM_GRID_DIMENSION - 1) / 2 + 1.
RECURSIVE propagate_outward(_, _, _)
propagate_outward(k, ap, depth) ==
    LET half == (DM_GRID_DIMENSION - 1) \div 2
        w == half + 1
        y == k \div w
        x == k % w
        dm_pos_right == (y * DM_GRID_DIMENSION) + half + x
        dm_pos_left == (y * DM_GRID_DIMENSION) + half - x
        d1 == IF ap[dm_pos_right] = TP_INACTIVE
              THEN [depth EXCEPT ![dm_pos_right] = depth[dm_pos_right - 1]]
              ELSE depth
        d2 == IF ap[dm_pos_left] = TP_INACTIVE
              THEN [d1 EXCEPT ![dm_pos_left] = d1[dm_pos_left + 1]]
              ELSE d1
    IN  IF k >= DM_GRID_DIMENSION * w THEN depth ELSE propagate_outward(k + 1, ap, d2)

\* The text of one value in /sd/dm_surface_transform ("%1.5f": hundred-thousandths
\* of a millimetre), and the float that atof()/strtof() read back from it.
depth_to_text(v) == IF v = NaN THEN NaN ELSE v * 100
text_to_depth(t) == IF t = NaN THEN NaN ELSE t \div 100

NoFile == [exists |-> FALSE, vals |-> <<>>]

\* best_probe_calibration as handleConfig() initialises it ("we'll use sigma==-1 to
\* check whether initialized").  sigma is kept as its square, the fraction
\* sigma_sq_num / sigma_sq_den; the sentinel sigma == -1 is kept as sigma_sq_num = -1,
\* which the square of no measured sigma equals.  priming is not initialised there.
NoBestProbe == [sigma_is_nan |-> FALSE, sigma_sq_num |-> -1, sigma_sq_den |-> 1, range |-> -1, accel |-> -1,
                debounce_count |-> -1, decelerate |-> FALSE, eccentricity |-> TRUE,
                smoothing |-> -1, priming |-> 0, fast |-> -1, slow |-> -1]

\* handleConfig() with the configured probe radius r and probe offsets off; tp and ap
\* are what init_test_points() computes for r.
handleConfig_store(r, off, tp, ap) ==
    /\ method_prefix_idx' = push_prefix(-1)
    /\ surface_transform' =
          set_adjust_function(
              set_virtual_shimming(
                  [surface_transform EXCEPT !.depth_ptr = "nullptr", !.depth = ZeroDepths,
                                            !.depth_enabled = FALSE,
                                            !.have_depth_map = FALSE],
                  0, 0, 0),
              TRUE)
    /\ depth_map' = zero_depth_maps
    /\ probe_radius' = r
    /\ test_point' = tp
    /\ active_point' = ap
    /\ probe_offset' = off
    /\ last' = [cmd |-> "config", ok |-> TRUE, unwritten |-> {}]
    /\ nearest' = [pos |-> <<0, 0>>, idx |-> find_nearest_test_point(<<0, 0>>, tp, ap)]
    /\ best_probe_calibration' = NoBestProbe
    /\ UNCHANGED <<sd_file, bili, energy, ic, hc, foc, pr, calc>>

handleConfig(r, off) == handleConfig_store(r, off, grid_points(r), init_active_points(r))

\* A G31 A that does not look at the probe offsets.
g31a_ignores_offsets(off) == FALSE

\* G31 A with nonzero X/Y probe offsets: refused before anything is touched.
g31a_refuses_offsets(off) == off[1] # 0 \/ off[2] # 0

\* G31 A: build the depth map, copy it into surface_transform.depth[], enable depth
\* correction, save the file.  fopen_oks: the outcomes fopen() may have (NULL: the file
\* is left as it was).
g31a_store(st1, scan, depth, taint, fopen_oks) ==
    /\ surface_transform' =
          set_adjust_function([st1 EXCEPT !.depth = depth, !.depth_enabled = TRUE], TRUE)
    /\ depth_map' = scan.dm
    /\ \E fopen_ok \in fopen_oks :
          sd_file' = IF fopen_ok
                     THEN [exists |-> TRUE,
                           vals |-> [k \in 1 .. DM_GRID_ELEMENTS |->
                                        depth_to_text(depth[k - 1])]]
                     ELSE sd_file
    /\ method_prefix_idx' =
          pop_prefix(pop_prefix(push_prefix(push_prefix(method_prefix_idx))))
    /\ last' = [cmd |-> "G31A", ok |-> TRUE, unwritten |-> {i \in GridIdx : taint[i]}]

\* G31 A once the depth array is allocated and the scan has returned.  taint follows
\* which entries of the caller's cartesian[] hold a value nobody assigned.
g31a_scanned(st1, scan, fopen_oks) ==
    IF ~scan.ok
    THEN /\ surface_transform' = st1
         /\ depth_map' = scan.dm
         /\ method_prefix_idx' =
               pop_prefix(pop_prefix(push_prefix(push_prefix(method_prefix_idx))))
         /\ last' = [cmd |-> "G31A", ok |-> FALSE, unwritten |-> {}]
         /\ UNCHANGED sd_file
    ELSE g31a_store(st1, scan,
                    propagate_outward(0, active_point, scan.cart),
                    propagate_outward(0, active_point,
                                      [i \in GridIdx |-> i \notin scan.written]),
                    fopen_oks)

g31a_alloc(st1, alloc_ok, bed, fail_at, garbage, fopen_oks) ==
    IF ~alloc_ok
    THEN \* return false, the "DC" prefix still pushed
         /\ surface_transform' = st1
         /\ method_prefix_idx' = push_prefix(method_prefix_idx)
         /\ last' = [cmd |-> "G31A", ok |-> FALSE, unwritten |-> {}]
         /\ UNCHANGED <<depth_map, sd_file>>
    ELSE g31a_scanned(st1,
                      depth_map_print_surface(probe_radius, test_point, active_point,
                                              zero_depth_maps, bed, fail_at, TRUE, garbage),
                      fopen_oks)

G31_A(alloc_ok, bed, fail_at, garbage, fopen_oks) ==
    IF g31a_refuses_offsets(probe_offset)
    THEN /\ last' = [cmd |-> "G31A", ok |-> FALSE, unwritten |-> {}]
         /\ UNCHANGED <<surface_transform, depth_map, sd_file, method_prefix_idx>>
    ELSE g31a_alloc(initDepthMapRAM([surface_transform EXCEPT !.depth_enabled = FALSE],
                                    alloc_ok),
                    alloc_ok, bed, fail_at, garbage, fopen_oks)

\* A letter of a G-code line: absent, or present with a value.
NoArg == [has |-> FALSE, val |-> 0]
Arg(v) == [has |-> TRUE, val |-> v]

\* The while(fgets()) loop of M667 E from value k of the file on (comment lines are
\* skipped, so only the values are kept in sd_file.vals).  i counts the elements
\* stored; a value outside (-5, 5) mm aborts.
RECURSIVE m667_read_file(_, _, _, _)
m667_read_file(k, vals, i, depth) ==
    IF k > Len(vals)
    THEN [in_range |-> TRUE, i |-> i, depth |-> depth]
    ELSE IF i < DM_GRID_ELEMENTS
         THEN IF vals[k] # NaN /\ vals[k] > -500000 /\ vals[k] < 500000
              THEN m667_read_file(k + 1, vals, i + 1,
                                  [depth EXCEPT ![i] = text_to_depth(vals[k])])
              ELSE [in_range |-> FALSE, i |-> i, depth |-> depth]
         ELSE m667_read_file(k + 1, vals, i, depth)

\* M667 Z: the master enable.
m667_master_enable(st, z) ==
    IF ~z.has
    THEN st
    ELSE IF z.val # 0
         THEN IF st.depth_enabled \/ st.plane_enabled
              THEN set_adjust_function(st, TRUE)
              ELSE st
         ELSE set_adjust_function(st, FALSE)

\* M667 E once the file has been read into the fresh depth array.
m667_loaded(st_ram, rd, e, z) ==
    IF ~rd.in_range
    THEN [st |-> [st_ram EXCEPT !.depth = rd.depth, !.depth_enabled = FALSE],
          ok |-> FALSE, popped |-> FALSE]
    ELSE IF rd.i # DM_GRID_ELEMENTS
    THEN [st |-> m667_master_enable([st_ram EXCEPT !.depth = rd.depth,
                                                   !.have_depth_map = FALSE,
                                                   !.depth_enabled = FALSE], z),
          ok |-> TRUE, popped |-> TRUE]
    ELSE IF e.val # 0
    THEN [st |-> m667_master_enable(
                     set_adjust_function([st_ram EXCEPT !.depth = rd.depth,
                                                        !.depth_enabled = TRUE], TRUE), z),
          ok |-> TRUE, popped |-> TRUE]
    ELSE [st |-> m667_master_enable([st_ram EXCEPT !.depth = rd.depth,
                                                   !.depth_enabled = FALSE], z),
          ok |-> TRUE, popped |-> TRUE]

\* M667: the whole handler.  Yields the model after it, whether it returned true,
\* and whether it reached its pop_prefix().
m667(st, off, file, a, b, c, d, e, z, alloc_ok) ==
    LET st_abc == [st EXCEPT !.tri_z = << IF a.has THEN a.val ELSE @[1],
                                         IF b.has THEN b.val ELSE @[2],
                                         IF c.has THEN c.val ELSE @[3] >>]
        st_d == IF d.has THEN [st_abc EXCEPT !.plane_enabled = (d.val # 0)] ELSE st_abc
        st_plane == IF st_d.plane_enabled
                    THEN set_adjust_function(
                             set_virtual_shimming(st_d, st_d.tri_z[1], st_d.tri_z[2],
                                                  st_d.tri_z[3]),
                             TRUE)
                    ELSE st_d
        done(s) == [st |-> m667_master_enable(s, z), ok |-> TRUE, popped |-> TRUE]
        abort(s) == [st |-> s, ok |-> FALSE, popped |-> FALSE]
    IN  IF ~e.has
        THEN done(st_plane)
        ELSE IF ~(off[1] = 0 /\ off[2] = 0)
        THEN done(st_plane)     \* "silently fail to enable"
        ELSE IF st_plane.have_depth_map
        THEN done([st_plane EXCEPT !.depth_enabled = (e.val # 0)])
        ELSE LET st_ram == initDepthMapRAM(st_plane, alloc_ok)
             IN  IF ~alloc_ok
                 THEN abort(st_ram)
                 ELSE IF ~file.exists
                 THEN done(st_ram)      \* "Depth correction not initialized."
                 ELSE m667_loaded(st_ram, m667_read_file(1, file.vals, 0, st_ram.depth),
                                  e, z)

m667_return(r, e) ==
    /\ surface_transform' = r.st
    /\ method_prefix_idx' = IF r.popped
                            THEN pop_prefix(push_prefix(method_prefix_idx))
                            ELSE push_prefix(method_prefix_idx)
    /\ last' = [cmd |-> IF e.has THEN "M667E" ELSE "M667", ok |-> r.ok, unwritten |-> {}]
    /\ UNCHANGED <<depth_map, sd_file>>

M667(a, b, c, d, e, z, alloc_ok) ==
    m667_return(m667(surface_transform, probe_offset, sd_file, a, b, c, d, e, z, alloc_ok),
                e)

\* G31 Z: map the surface and print it, no calibration.
g31z_scanned(scan) ==
    /\ depth_map' = scan.dm
    /\ method_prefix_idx' =
          pop_prefix(pop_prefix(push_prefix(push_prefix(method_prefix_idx))))
    /\ last' = [cmd |-> "G31Z", ok |-> TRUE, unwritten |-> {}]
    /\ UNCHANGED <<surface_transform, sd_file>>

G31_Z(bed, fail_at, garbage) ==
    g31z_scanned(depth_map_print_surface(probe_radius, test_point, active_point,
                                         depth_map, bed, fail_at, FALSE, garbage))

\* The Y letter of G31: zero all offsets (the part that reaches the shimming).
hc_zero_offsets(st, zero_all_offsets) ==
    IF zero_all_offsets THEN set_virtual_shimming(st, 0, 0, 0) ELSE st

\* heuristic_calibration() up to its annealing loop, as far as the surface correction
\* model goes: the Y letter, depth correction off, the plane on exactly when the
\* virtual shimming group is active.  A simulation that does not keep the settings
\* then goes through set_kinematics(base_set), the perturbation of the shimming and
\* set_kinematics(temp_set), which leave the shimming at base_shim, the heights
\* base_set holds (those of the last live run, or of this run when it is the first).
hc_setup(st, vs_active, simulate_only, keep_settings, zero_all_offsets, base_shim) ==
    IF simulate_only /\ ~keep_settings
    THEN set_virtual_shimming(
             IF vs_active
             THEN set_virtual_shimming(
                      set_virtual_shimming(
                          [hc_zero_offsets(st, zero_all_offsets)
                              EXCEPT !.depth_enabled = FALSE, !.plane_enabled = vs_active],
                          base_shim[1], base_shim[2], base_shim[3]),
                      0, 0, -1000)
             ELSE set_virtual_shimming(
                      set_virtual_shimming(
                          [hc_zero_offsets(st, zero_all_offsets)
                              EXCEPT !.depth_enabled = FALSE, !.plane_enabled = vs_active],
                          base_shim[1], base_shim[2], base_shim[3]),
                      0, 0, 0),
             base_shim[1], base_shim[2], base_shim[3])
    ELSE [hc_zero_offsets(st, zero_all_offsets)
             EXCEPT !.depth_enabled = FALSE, !.plane_enabled = vs_active]

\* heuristic_calibration() from its surface scan on.  st_off is the model with depth
\* correction off; st_set the model as the run is set up; live_scan says whether the
\* printer is probed (neither simulating nor keeping the old map); shims what the
\* annealing may leave in set_virtual_shimming() (none when the group is not active).
hc_scanned(st_off, st_set, live_scan, scan, vs_active, shims) ==
    IF live_scan /\ ~scan.ok
    THEN \* "Couldn't depth-map the surface."
         /\ surface_transform' = st_off
         /\ depth_map' = scan.dm
         /\ method_prefix_idx' =
               pop_prefix(pop_prefix(push_prefix(push_prefix(method_prefix_idx))))
         /\ last' = [cmd |-> "G31", ok |-> FALSE, unwritten |-> {}]
         /\ UNCHANGED sd_file
    ELSE /\ IF vs_active
            THEN \E shim \in shims :
                    surface_transform' =
                        set_virtual_shimming(st_set, shim[1], shim[2], shim[3])
            ELSE surface_transform' = st_set
         /\ depth_map' = IF live_scan THEN scan.dm ELSE zero_depth_maps
         /\ method_prefix_idx' =
               pop_prefix(pop_prefix(push_prefix(push_prefix(method_prefix_idx))))
         /\ last' = [cmd |-> "G31", ok |-> TRUE, unwritten |-> {}]
         /\ UNCHANGED sd_file

\* G31 with other letters: heuristic_calibration(), as far as the surface correction
\* model, depth_map[] and the prefix stack go.  The annealing calls
\* set_virtual_shimming() only for an active virtual shimming group; the annealing of
\* the other kinematic parameters is not part of this action (see HC_Try).
G31_heuristic(has_args, vs_active, simulate_only, keep_settings, zero_all_offsets, bed, fail_at, garbage, shims, base_shim) ==
    IF ~has_args
    THEN \* usage text only
         /\ method_prefix_idx' = pop_prefix(push_prefix(method_prefix_idx))
         /\ last' = [cmd |-> "G31", ok |-> TRUE, unwritten |-> {}]
         /\ UNCHANGED <<surface_transform, depth_map, sd_file>>
    ELSE hc_scanned(hc_setup(surface_transform, vs_active, FALSE, FALSE, zero_all_offsets,
                             base_shim),
                    hc_setup(surface_transform, vs_active, simulate_only, keep_settings,
                             zero_all_offsets, base_shim),
                    ~simulate_only /\ ~keep_settings,
                    IF ~simulate_only /\ ~keep_settings
                    THEN depth_map_print_surface(probe_radius, test_point, active_point,
                                                 zero_depth_maps, bed, fail_at, FALSE,
                                                 garbage)
                    ELSE [ok |-> TRUE, dm |-> zero_depth_maps],
                    vs_active, shims)

\* How a G32 run ends (the loop itself is IC_Pass below).
IC_Exits == {"tolerance", "cap", "probe", "trim_query", "trim_sanity", "radius_query"}

\* The exits of iterative_calibration() taken inside the "ES" or "DR" section: they
\* pop one prefix of the two pushed.
ic_exit_leaks_prefix(exit) == exit \in {"trim_query", "trim_sanity", "radius_query"}

\* G32: iterative_calibration(keep), as far as the surface correction model,
\* depth_map[] and the prefix stack go.
G32(keep, exit) ==
    LET st_off == set_adjust_function(surface_transform, FALSE)
    IN  /\ surface_transform' = IF keep THEN st_off
                                ELSE set_virtual_shimming(st_off, 0, 0, 0)
        /\ depth_map' = zero_depth_maps
        /\ method_prefix_idx' =
              IF ic_exit_leaks_prefix(exit)
              THEN pop_prefix(push_prefix(push_prefix(method_prefix_idx)))
              ELSE pop_prefix(push_prefix(method_prefix_idx))
        /\ last' = [cmd |-> "G32", ok |-> exit \in {"tolerance", "cap"}, unwritten |-> {}]
        /\ UNCHANGED sd_file

(***************************************************************************)
(* Spec: the command surface acting on the surface correction model        *)
(***************************************************************************)
\* Configurations handleConfig() may read.
ConfigRadius == 100
ConfigOffsets == {<<0, 0>>, <<5, 0>>, <<0, 5>>}

\* What /sd/dm_surface_transform may hold before any G31 A (values in 1e-5 mm).
InitialFiles ==
    { NoFile,
      [exists |-> TRUE, vals |-> [k \in 1 .. DM_GRID_ELEMENTS |-> 10000]],
      [exists |-> TRUE, vals |-> [k \in 1 .. (DM_GRID_ELEMENTS - 1) |-> 10000]],
      [exists |-> TRUE, vals |-> <<10000, 600000, 10000>>] }

\* The bed and the probe failures tried in a scan of this specification.
TiltedBed == [base |-> 1000, ax |-> 1, ay |-> 0, dc |-> 0]
ScanFailSites == {NoFail, FailAt("center"), FailAtPoint(2)}

\* What the uninitialised cartesian[] of G31 A holds.
StackGarbage == {0, 777}

\* The M667 lines tried: each letter alone (A/B/C in micrometres), and some together.
M667Line(a, b, c, d, e, z) == [a |-> a, b |-> b, c |-> c, d |-> d, e |-> e, z |-> z]
M667Lines ==
    { M667Line(NoArg, NoArg, NoArg, NoArg, NoArg, NoArg),
      M667Line(Arg(500), NoArg, NoArg, NoArg, NoArg, NoArg),
      M667Line(Arg(0), Arg(0), Arg(0), NoArg, NoArg, NoArg),
      M667Line(NoArg, NoArg, NoArg, Arg(0), NoArg, NoArg),
      M667Line(NoArg, NoArg, NoArg, Arg(1), NoArg, NoArg),
      M667Line(NoArg, NoArg, NoArg, NoArg, Arg(0), NoArg),
      M667Line(NoArg, NoArg, NoArg, NoArg, Arg(1), NoArg),
      M667Line(NoArg, NoArg, NoArg, NoArg, NoArg, Arg(0)),
      M667Line(NoArg, NoArg, NoArg, NoArg, NoArg, Arg(1)),
      M667Line(NoArg, NoArg, NoArg, Arg(1), Arg(1), Arg(1)),
      M667Line(Arg(500), NoArg, NoArg, NoArg, Arg(1), Arg(0)) }

\* The letters given with G31 (heuristic calibration), and the shimming it ends with.
HeuristicArgs ==
    { [has_args |-> FALSE, vs_active |-> FALSE, simulate_only |-> FALSE,
       keep_settings |-> FALSE, zero_all_offsets |-> FALSE],
      [has_args |-> TRUE, vs_active |-> FALSE, simulate_only |-> FALSE,
       keep_settings |-> FALSE, zero_all_offsets |-> FALSE],
      [has_args |-> TRUE, vs_active |-> TRUE, simulate_only |-> FALSE,
       keep_settings |-> FALSE, zero_all_offsets |-> TRUE],
      [has_args |-> TRUE, vs_active |-> FALSE, simulate_only |-> TRUE,
       keep_settings |-> FALSE, zero_all_offsets |-> FALSE],
      [has_args |-> TRUE, vs_active |-> TRUE, simulate_only |-> FALSE,
       keep_settings |-> TRUE, zero_all_offsets |-> FALSE] }
ShimResults == {<<0, 0, 0>>, <<500, 0, 0>>}

\* The shimming base_set holds when a run reads it: the present heights (taken in
\* this run), or in a simulation that restores the baseline, those an earlier live
\* run saved (here: none).
BaseShims(args, tri_z) ==
    IF args.zero_all_offsets
    THEN {<<0, 0, 0>>}
    ELSE IF args.simulate_only /\ ~args.keep_settings
         THEN {tri_z, <<0, 0, 0>>}
         ELSE {tri_z}

\* bili before any get_adjust_z() call.
NoAdjust == [interp |-> FALSE, x |-> 0, y |-> 0,
             st_Q11 |-> 0, st_Q12 |-> 0, st_Q21 |-> 0, st_Q22 |-> 0,
             z_num |-> 0, z_den |-> 1]

\* energy before any calc_energy() call.
NoEnergy == [called |-> FALSE, z |-> [i \in GridIdx |-> 0], mu |-> 0, n |-> 1]

\* iterative_calibration() not running: no run has started, the statics of its "ES"
\* section are zero, the trim and the delta radius (3 * micrometres) as configured.
NoRun == [pc |-> "idle", outer_i |-> 0, probes |-> 0, reason |-> "none", ret |-> TRUE,
          trim |-> <<0, 0, 0>>, delta_radius3 |-> 390000,
          last_deviation |-> 0, trimscale |-> 0, needs_reset |-> TRUE,
          es_in_tolerance |-> FALSE, dr_in_tolerance |-> FALSE]

\* heuristic_calibration() not running; the multipliers as the constructor leaves
\* them.
NoAnneal == [pc |-> "idle", simulate_only |-> FALSE, keep_settings |-> FALSE,
             endstop_active |-> FALSE, vs_active |-> FALSE,
             temp_mul |-> <<1, 1, 1, 1, 1>>,
             annealing_tries |-> 0, annealing_try |-> 0,
             last_energy |-> <<0, 0, 0, 0, 0, 0>>, last_energy_count |-> 0,
             readings |-> 0, trim |-> <<0, 0, 0>>, tempE |-> 0,
             stalled |-> FALSE, within_target |-> FALSE, success |-> FALSE,
             probe_failed |-> FALSE, exit |-> "none", ret |-> TRUE,
             max_temp |-> 0, temp_set |-> FALSE, temp_try |-> 0,
             temp |-> [num |-> 0, den |-> 1], trim_on_entry |-> <<0, 0, 0>>]

\* No find_optimal_config() call made yet.
NoSearch == [called |-> FALSE, landscape |-> [minimum |-> 0, left |-> 1, right |-> 1],
             range_min |-> 0, range_max |-> 0, min |-> 0, max |-> 0, steps |-> 0,
             best_twice |-> 0]

\* No repeatability test running.
NoTrial == [pc |-> "idle", nSamples |-> 0, i |-> 0, sample |-> <<>>, mu_sum |-> 0,
            range |-> 0, ret |-> TRUE]

\* No helper called on its own yet.
NoCalc == [fn |-> "none"]

IdleCalibrations ==
    /\ hc = NoAnneal
    /\ foc = NoSearch
    /\ best_probe_calibration = NoBestProbe
    /\ pr = NoTrial
    /\ calc = NoCalc

IdleQueries ==
    /\ bili = NoAdjust
    /\ energy = NoEnergy
    /\ ic = NoRun
    /\ IdleCalibrations

grid_vars == <<probe_radius, probe_offset, test_point, active_point>>
query_vars == <<nearest, bili, energy, ic, hc, foc, best_probe_calibration, pr, calc>>

Init ==
    /\ probe_radius = ConfigRadius
    /\ probe_offset \in ConfigOffsets
    /\ test_point = grid_points(ConfigRadius)
    /\ active_point = init_active_points(ConfigRadius)
    /\ surface_transform = [depth_ptr |-> "nullptr", depth |-> ZeroDepths,
                            depth_enabled |-> FALSE, have_depth_map |-> FALSE,
                            plane_enabled |-> FALSE, active |-> TRUE,
                            tri_z |-> <<0, 0, 0>>]
    /\ depth_map = zero_depth_maps
    /\ sd_file \in InitialFiles
    /\ method_prefix_idx = 0
    /\ last = [cmd |-> "config", ok |-> TRUE, unwritten |-> {}]
    /\ nearest = [pos |-> <<0, 0>>,
                  idx |-> find_nearest_test_point(<<0, 0>>, grid_points(ConfigRadius),
                                                  init_active_points(ConfigRadius))]
    /\ IdleQueries

ConfigReload ==
    \E off \in ConfigOffsets : handleConfig(ConfigRadius, off)

CmdG31A ==
    /\ \E alloc_ok \in BOOLEAN :
          \E fail_at \in (IF alloc_ok THEN ScanFailSites ELSE {NoFail}) :
             \E garbage \in (IF alloc_ok /\ fail_at = NoFail THEN StackGarbage ELSE {0}) :
                G31_A(alloc_ok, TiltedBed, fail_at, garbage, BOOLEAN)
    /\ UNCHANGED <<grid_vars, query_vars>>

CmdG31Z ==
    /\ \E fail_at \in {NoFail, FailAt("prime")} : G31_Z(TiltedBed, fail_at, 0)
    /\ UNCHANGED <<grid_vars, query_vars>>

CmdG31 ==
    /\ \E args \in HeuristicArgs :
          LET live == args.has_args /\ ~args.simulate_only /\ ~args.keep_settings
          IN  \E fail_at \in (IF live THEN ScanFailSites ELSE {NoFail}),
                 base_shim \in BaseShims(args, surface_transform.tri_z) :
                 G31_heuristic(args.has_args, args.vs_active, args.simulate_only,
                               args.keep_settings, args.zero_all_offsets,
                               TiltedBed, fail_at, 0, ShimResults, base_shim)
    /\ UNCHANGED <<grid_vars, query_vars>>

CmdG32 ==
    /\ \E keep \in BOOLEAN, exit \in {"tolerance", "probe", "trim_sanity"} : G32(keep, exit)
    /\ UNCHANGED <<grid_vars, query_vars>>

CmdM667 ==
    /\ \E l \in M667Lines :
          \E alloc_ok \in (IF l.e.has THEN BOOLEAN ELSE {TRUE}) :
             M667(l.a, l.b, l.c, l.d, l.e, l.z, alloc_ok)
    /\ UNCHANGED <<grid_vars, query_vars>>

Next == ConfigReload \/ CmdG31A \/ CmdG31Z \/ CmdG31 \/ CmdG32 \/ CmdM667

Spec == Init /\ [][Next]_vars

(***************************************************************************)
(* Properties of the command surface (checked under Spec)                  *)
(***************************************************************************)
\* C1: whenever depth correction is enabled, the depth array is allocated (and holds
\* DM_GRID_ELEMENTS entries), whatever commands ran before and whether or not an
\* allocation failed on the way.
C1_EnabledDepthIsAllocated ==
    surface_transform.depth_enabled =>
        /\ surface_transform.depth_ptr = "heap"
        /\ DOMAIN surface_transform.depth = GridIdx

\* C2: after a G31 A that returned true, every entry of the depth array holds a value
\* the scan wrote, and the entry of the Center point is 0.
C2_ScanWroteEveryDepth ==
    (last.cmd = "G31A" /\ last.ok) =>
        /\ last.unwritten = {}
        /\ \A i \in GridIdx :
              active_point[i] = TP_CENTER => surface_transform.depth[i] = 0

\* C4: while the probe has a nonzero X or Y offset, depth correction is never enabled:
\* G31 A refuses and M667 E leaves it off.
C4_OffsetProbeNeverEnablesDepth ==
    (probe_offset[1] # 0 \/ probe_offset[2] # 0) => ~surface_transform.depth_enabled

\* C4, its case: M667 E has run on an offset probe with a complete depth-map file at
\* hand, and depth correction is off.
C4_Witness ==
    /\ probe_offset[1] # 0 \/ probe_offset[2] # 0
    /\ last.cmd = "M667E"
    /\ sd_file.exists /\ Len(sd_file.vals) = DM_GRID_ELEMENTS
    /\ ~surface_transform.depth_enabled

(***************************************************************************)
(* SpecGrid: init_test_points() and find_nearest_test_point()              *)
(***************************************************************************)
\* Probe radii (mm; even, so that the grid spacing and the neighbouring radius are
\* whole numbers) and the coordinates a position is queried at.
GridRadii == {20, 60, 100, 140, 400}
QueryCoords == {-2000, -100, -40, 0, 30, 100, 1100}

\* find_nearest_test_point(pos), called with the grid as it stands.
FindNearest(pos) ==
    /\ nearest' = [pos |-> pos, idx |-> find_nearest_test_point(pos, test_point, active_point)]
    /\ UNCHANGED <<grid_vars, surface_transform, depth_map, sd_file, method_prefix_idx,
                   last, bili, energy, ic, calib_vars>>

InitGrid ==
    /\ probe_radius \in GridRadii
    /\ probe_offset = <<0, 0>>
    /\ test_point = grid_points(probe_radius)
    /\ active_point = init_active_points(probe_radius)
    /\ surface_transform = [depth_ptr |-> "nullptr", depth |-> ZeroDepths,
                            depth_enabled |-> FALSE, have_depth_map |-> FALSE,
                            plane_enabled |-> FALSE, active |-> TRUE,
                            tri_z |-> <<0, 0, 0>>]
    /\ depth_map = zero_depth_maps
    /\ sd_file = NoFile
    /\ method_prefix_idx = 0
    /\ last = [cmd |-> "config", ok |-> TRUE, unwritten |-> {}]
    /\ nearest = [pos |-> <<0, 0>>,
                  idx |-> find_nearest_test_point(<<0, 0>>, test_point, active_point)]
    /\ IdleQueries

GridConfig == \E r \in GridRadii : handleConfig(r, <<0, 0>>)

GridQuery == \E x \in QueryCoords, y \in QueryCoords : FindNearest(<<x, y>>)

NextGrid == GridConfig \/ GridQuery

SpecGrid == InitGrid /\ [][NextGrid]_vars

\* Distance of grid point i from the origin, squared; its row and column.
origin_dist_sq(i) == distance2D_sq(<<0, 0>>, test_point[i])
grid_row(i) == i \div DM_GRID_DIMENSION
grid_col(i) == i % DM_GRID_DIMENSION
on_outer_row(i) == grid_row(i) = 0 \/ grid_row(i) = DM_GRID_DIMENSION - 1
on_outer_col(i) == grid_col(i) = 0 \/ grid_col(i) = DM_GRID_DIMENSION - 1
neighbor_radius_sq ==
    (probe_radius + probe_radius \div ((DM_GRID_DIMENSION - 1) \div 2)) *
    (probe_radius + probe_radius \div ((DM_GRID_DIMENSION - 1) \div 2))

\* The tag of a point within the radius: Active, or Center for the point at the origin.
in_radius_tag(i) == active_point[i] \in {TP_ACTIVE, TP_CENTER}

\* C5 as stated: a point is Active exactly when it lies within the probe radius (the
\* Center point counted with the Active ones); otherwise ActiveNeighbor exactly when
\* it lies within the neighbouring radius and on neither an outer row nor an outer
\* column; otherwise Inactive.
C5_AsStated ==
    \A i \in GridIdx :
        IF origin_dist_sq(i) <= probe_radius * probe_radius
        THEN in_radius_tag(i)
        ELSE IF origin_dist_sq(i) <= neighbor_radius_sq /\ ~on_outer_row(i) /\ ~on_outer_col(i)
             THEN active_point[i] = TP_ACTIVE_NEIGHBOR
             ELSE active_point[i] = TP_INACTIVE

\* C5, amended: the point at the origin is Center; any other point is Active exactly
\* when it lies within the probe radius; otherwise ActiveNeighbor exactly when it lies
\* within the neighbouring radius and not on the top or bottom row (outer columns are
\* not excluded); otherwise Inactive.
C5_RowsOnlyClassification ==
    \A i \in GridIdx :
        IF test_point[i] = <<0, 0>>
        THEN active_point[i] = TP_CENTER
        ELSE IF origin_dist_sq(i) <= probe_radius * probe_radius
        THEN active_point[i] = TP_ACTIVE
        ELSE IF origin_dist_sq(i) <= neighbor_radius_sq /\ ~on_outer_row(i)
             THEN active_point[i] = TP_ACTIVE_NEIGHBOR
             ELSE active_point[i] = TP_INACTIVE

\* C5, its case: a grid has been classified on which a point of an outer column lies
\* outside the radius but within the neighbouring radius, and is ActiveNeighbor.
C5_Witness ==
    \E i \in GridIdx :
        /\ on_outer_col(i) /\ ~on_outer_row(i)
        /\ origin_dist_sq(i) > probe_radius * probe_radius
        /\ origin_dist_sq(i) <= neighbor_radius_sq
        /\ active_point[i] = TP_ACTIVE_NEIGHBOR
        /\ last.cmd = "config"

\* C6: on the 5x5 grid with probe radius 100, 13 points lie within the radius: the
\* Center and 12 Active ones; exactly one point is Center; the other 12 are Inactive
\* or ActiveNeighbor.
C6_ThirteenInRadius ==
    (DM_GRID_DIMENSION = 5 /\ probe_radius = 100) =>
        /\ Cardinality({i \in GridIdx : active_point[i] = TP_ACTIVE}) = 12
        /\ Cardinality({i \in GridIdx : active_point[i] = TP_CENTER}) = 1
        /\ Cardinality({i \in GridIdx : in_radius_tag(i)}) = 13
        /\ Cardinality({i \in GridIdx :
                          active_point[i] \in {TP_INACTIVE, TP_ACTIVE_NEIGHBOR}}) = 12
        /\ \A i \in GridIdx :
              in_radius_tag(i) <=> origin_dist_sq(i) <= probe_radius * probe_radius

\* C6, its case: the 5x5 grid of radius 100, with points exactly on the radius tagged
\* Active.
C6_Witness ==
    /\ DM_GRID_DIMENSION = 5 /\ probe_radius = 100
    /\ \E i \in GridIdx : /\ origin_dist_sq(i) = probe_radius * probe_radius
                          /\ active_point[i] = TP_ACTIVE

\* C7: whatever the position asked for, find_nearest_test_point() returns the index
\* of a point tagged Active or Center.
C7_NearestIsActiveOrCenter ==
    active_point[nearest.idx] \in {TP_ACTIVE, TP_CENTER}

(***************************************************************************)
(* SpecAdjust: get_adjust_z(), the bilinear interpolation over the depths  *)
(***************************************************************************)
\* surface_transform.depth[idx] as the machine reads it: the entry when idx is inside
\* the array, else whatever float lies at that address (beyond).
read_depth(st, idx, beyond) ==
    IF st.depth_ptr = "heap" /\ idx \in GridIdx THEN st.depth[idx] ELSE beyond

\* The plane term of get_adjust_z().  With tri_z = <<0, 0, 0>> set_virtual_shimming()
\* leaves normal = (0, 0, 1) and d = 0, so the term is (-0*x - 0*y - 0) / 1.
plane_term(st, x, y) == (0 * x) + (0 * y)

\* get_adjust_z(targetX, targetY) for probe radius r.  Array positions are kept as
\* numerators over the point spacing (cartesian_to_array_scaler = 1 / point_spacing),
\* the result as the numerator z_num over z_den = point_spacing^2.
get_adjust_z(st, r, targetX, targetY, beyond) ==
    LET S  == point_spacing(r)
        cx == clamp(targetX, -r, r)
        cy == clamp(targetY, -r, r)
        array_x == cx + r
        array_y == (-cy) + r
        x1 == array_x \div S
        y1 == array_y \div S
        x2 == x1 + 1
        y2 == y1 + 1
        st_Q11 == (y1 * DM_GRID_DIMENSION) + x1
        st_Q12 == (y2 * DM_GRID_DIMENSION) + x1
        st_Q21 == (y1 * DM_GRID_DIMENSION) + x2
        st_Q22 == (y2 * DM_GRID_DIMENSION) + x2
        divisor == (x2 - x1) * (y2 - y1)
        x2_minus_x == (x2 * S) - array_x
        x_minus_x1 == array_x - (x1 * S)
        y2_minus_y == (y2 * S) - array_y
        y_minus_y1 == array_y - (y1 * S)
        result ==
            FAdd(FAdd(FMul(read_depth(st, st_Q11, beyond), x2_minus_x * y2_minus_y),
                      FMul(read_depth(st, st_Q21, beyond), x_minus_x1 * y2_minus_y)),
                 FAdd(FMul(read_depth(st, st_Q12, beyond), x2_minus_x * y_minus_y1),
                      FMul(read_depth(st, st_Q22, beyond), x_minus_x1 * y_minus_y1)))
        plane == IF st.plane_enabled /\ st.active THEN plane_term(st, targetX, targetY) ELSE 0
    IN  IF st.depth_enabled /\ st.active
        THEN [interp |-> TRUE, x |-> targetX, y |-> targetY,
              st_Q11 |-> st_Q11, st_Q12 |-> st_Q12, st_Q21 |-> st_Q21, st_Q22 |-> st_Q22,
              z_num |-> FAdd(plane * S * S * divisor, result), z_den |-> S * S * divisor]
        ELSE [interp |-> FALSE, x |-> targetX, y |-> targetY,
              st_Q11 |-> 0, st_Q12 |-> 0, st_Q21 |-> 0, st_Q22 |-> 0,
              z_num |-> plane, z_den |-> 1]

\* Depth arrays a depth-map file can load (micrometres) and the targets of a move (mm):
\* grid points, points between them, points beyond the probe radius.
AdjustDepths == { [i \in GridIdx |-> (7 * i) - 80], [i \in GridIdx |-> 100] }
TargetCoords == {-150, -100, -70, -50, 0, 25, 50, 100, 130}

\* The kernel's compensationTransform calls get_adjust_z() for a move to (x, y).
AdjustZ(x, y, beyond) ==
    /\ bili' = get_adjust_z(surface_transform, probe_radius, x, y, beyond)
    /\ UNCHANGED <<grid_vars, surface_transform, depth_map, sd_file, method_prefix_idx,
                   last, nearest, energy, ic, calib_vars>>

InitAdjust ==
    /\ probe_radius = ConfigRadius
    /\ probe_offset = <<0, 0>>
    /\ test_point = grid_points(ConfigRadius)
    /\ active_point = init_active_points(ConfigRadius)
    /\ \E d \in AdjustDepths :
          surface_transform = [depth_ptr |-> "heap", depth |-> d,
                               depth_enabled |-> TRUE, have_depth_map |-> FALSE,
                               plane_enabled |-> FALSE, active |-> TRUE,
                               tri_z |-> <<0, 0, 0>>]
    /\ depth_map = zero_depth_maps
    /\ sd_file = NoFile
    /\ method_prefix_idx = 0
    /\ last = [cmd |-> "M667E", ok |-> TRUE, unwritten |-> {}]
    /\ nearest = [pos |-> <<0, 0>>,
                  idx |-> find_nearest_test_point(<<0, 0>>, test_point, active_point)]
    /\ bili = NoAdjust
    /\ energy = NoEnergy
    /\ ic = NoRun
    /\ IdleCalibrations

AdjustQuery ==
    \E x \in TargetCoords, y \in TargetCoords, beyond \in GarbageFloats :
        AdjustZ(x, y, beyond)

\* M667 Z0 / Z1 / D0 / D1: the master enable and the plane switch.
AdjustSwitch ==
    /\ \E d, z \in {NoArg, Arg(0), Arg(1)} :
          /\ d.has \/ z.has
          /\ M667(NoArg, NoArg, NoArg, d, NoArg, z, TRUE)
    /\ UNCHANGED <<grid_vars, query_vars>>

NextAdjust == AdjustQuery \/ AdjustSwitch

SpecAdjust == InitAdjust /\ [][NextAdjust]_vars

\* C3: the four corner indices get_adjust_z() computes lie in 0 .. N*N-1 and are the
\* corners of one grid cell, for every target, targets on or beyond the grid's edge
\* included.
C3_CornersInsideOneCell ==
    bili.interp =>
        /\ {bili.st_Q11, bili.st_Q12, bili.st_Q21, bili.st_Q22} \subseteq GridIdx
        /\ grid_col(bili.st_Q11) < DM_GRID_DIMENSION - 1
        /\ bili.st_Q21 = bili.st_Q11 + 1
        /\ bili.st_Q12 = bili.st_Q11 + DM_GRID_DIMENSION
        /\ bili.st_Q22 = bili.st_Q12 + 1

\* C8: with depth correction and the master switch on and the plane off, get_adjust_z()
\* at a grid point's coordinates returns exactly that point's stored depth, points of
\* the last row or column included.
C8_ExactAtGridPoints ==
    (bili.interp /\ ~surface_transform.plane_enabled) =>
        \A i \in GridIdx :
            test_point[i] = <<bili.x, bili.y>> =>
                /\ bili.z_num # NaN
                /\ bili.z_num = surface_transform.depth[i] * bili.z_den

(***************************************************************************)
(* SpecEnergy: calc_energy()                                               *)
(***************************************************************************)
\* A loop that also counts the Center point.
RECURSIVE calc_energy_with_center(_, _, _, _, _)
calc_energy_with_center(stats, z, ap, mu, i) ==
    IF stats >= DM_GRID_ELEMENTS
    THEN [mu |-> mu, n |-> i]
    ELSE IF ap[stats] = TP_ACTIVE \/ ap[stats] = TP_CENTER
         THEN calc_energy_with_center(stats + 1, z, ap, mu + Abs(z[stats]), i + 1)
         ELSE calc_energy_with_center(stats + 1, z, ap, mu, i)

\* The loop of calc_energy(cartesian) from index stats on; the function returns
\* mu / i, kept here as the pair (mu, n).
RECURSIVE calc_energy(_, _, _, _, _)
calc_energy(stats, z, ap, mu, i) ==
    IF stats >= DM_GRID_ELEMENTS
    THEN [mu |-> mu, n |-> i]
    ELSE IF ap[stats] = TP_ACTIVE
         THEN calc_energy(stats + 1, z, ap, mu + Abs(z[stats]), i + 1)
         ELSE calc_energy(stats + 1, z, ap, mu, i)

energy_of(z, e) == [called |-> TRUE, z |-> z, mu |-> e.mu, n |-> e.n]

\* calc_energy(points): the relative depths go through cartesian[][Z].
CalcEnergy(z) ==
    /\ energy' = energy_of(z, calc_energy(0, z, active_point, 0, 0))
    /\ UNCHANGED <<grid_vars, surface_transform, depth_map, sd_file, method_prefix_idx,
                   last, nearest, bili, ic, calib_vars>>

\* Relative depths (micrometres) handed to calc_energy(): one level for the Active
\* points, one for the others, and one point moved off its level.
EnergyLevels == {0, 30}
OtherLevels == {0, -500}
EnergyDeltas == {0, -40, 40}

energy_input(ap, active_level, other_level, k, delta) ==
    [i \in GridIdx |->
        (IF ap[i] = TP_ACTIVE THEN active_level ELSE other_level) +
        (IF i = k THEN delta ELSE 0)]

InitEnergy ==
    /\ probe_radius \in {60, ConfigRadius}
    /\ probe_offset = <<0, 0>>
    /\ test_point = grid_points(probe_radius)
    /\ active_point = init_active_points(probe_radius)
    /\ surface_transform = [depth_ptr |-> "nullptr", depth |-> ZeroDepths,
                            depth_enabled |-> FALSE, have_depth_map |-> FALSE,
                            plane_enabled |-> FALSE, active |-> TRUE,
                            tri_z |-> <<0, 0, 0>>]
    /\ depth_map = zero_depth_maps
    /\ sd_file = NoFile
    /\ method_prefix_idx = 0
    /\ last = [cmd |-> "config", ok |-> TRUE, unwritten |-> {}]
    /\ nearest = [pos |-> <<0, 0>>,
                  idx |-> find_nearest_test_point(<<0, 0>>, test_point, active_point)]
    /\ IdleQueries

EnergyCall ==
    \E active_level \in EnergyLevels, other_level \in OtherLevels,
       k \in GridIdx, delta \in EnergyDeltas :
        CalcEnergy(energy_input(active_point, active_level, other_level, k, delta))

EnergyConfig == \E r \in {60, ConfigRadius} : handleConfig(r, <<0, 0>>)

NextEnergy == EnergyCall \/ EnergyConfig

SpecEnergy == InitEnergy /\ [][NextEnergy]_vars

\* The sum of |z[i]| over the indices in S.
RECURSIVE SumAbs(_, _)
SumAbs(S, z) ==
    IF S = {} THEN 0
    ELSE LET i == CHOOSE j \in S : TRUE IN Abs(z[i]) + SumAbs(S \ {i}, z)

ActivePoints == {i \in GridIdx : active_point[i] = TP_ACTIVE}

\* C9: the energy is the mean of |relative depth| over the Active points only (Center,
\* ActiveNeighbor and Inactive points do not count); it is never negative, and it is 0
\* exactly when every Active point's depth is 0.
C9_EnergyIsMeanOverActive ==
    energy.called =>
        /\ energy.n = Cardinality(ActivePoints)
        /\ energy.n > 0
        /\ energy.mu = SumAbs(ActivePoints, energy.z)
        /\ energy.mu >= 0
        /\ (energy.mu = 0) <=> (\A i \in ActivePoints : energy.z[i] = 0)

\* C9, its case: calc_energy() has run on depths that are 0 at every Active point and
\* not 0 at the Center and at a neighbour, and returned 0.
C9_Witness ==
    /\ energy.called
    /\ energy.mu = 0
    /\ \E i \in GridIdx : active_point[i] = TP_CENTER /\ energy.z[i] # 0
    /\ \E i \in GridIdx : active_point[i] = TP_ACTIVE_NEIGHBOR /\ energy.z[i] # 0

(***************************************************************************)
(* SpecIC: iterative_calibration(), one action per pass of its main loop   *)
(***************************************************************************)
\* for(outer_i = 0; outer_i < 20; outer_i++)
IC_MAX_ITERATIONS == 20
\* float target = 0.03 (mm), here in micrometres
IC_TARGET == 30
\* Units: depths and deviations in micrometres; trimscale in 1e-5; trim in 1e-5
\* micrometres (so that depth * trimscale is whole); delta radius times 3 (so that the
\* tower average is whole).
TRIMSCALE_ONE == 100 * 1000
TRIMSCALE_RESET == 130000
LAST_DEVIATION_RESET == 999000
TRIM_FLOOR == -5000 * TRIMSCALE_ONE

\* A loop without the cap.
ic_loop_unbounded(outer_i) == TRUE

\* The loop condition outer_i < 20.
ic_loop_continues(outer_i) == outer_i < IC_MAX_ITERATIONS

Min3(t) == Min2(t[1], Min2(t[2], t[3]))
Max3(t) == Max2(t[1], Max2(t[2], t[3]))

\* A normalisation that subtracts the smallest of the three.
normalize_trim_by_min(t) == <<t[1] - Min3(t), t[2] - Min3(t), t[3] - Min3(t)>>

\* "Correct the downward creep issue by normalizing the trim offsets" (G32) and
\* "Normalize trim (this prevents downward creep)" (G31): subtract the largest of the
\* three from each.
normalize_trim(t) == <<t[1] - Max3(t), t[2] - Max3(t), t[3] - Max3(t)>>

\* A return from inside the loop: reason says which one, ret what it returns.
ic_return(c, reason, ret, probes) ==
    [c EXCEPT !.pc = "done", !.reason = reason, !.ret = ret, !.probes = @ + probes]

\* The "ES" section once the trim has been read: clip, sanity-check, maybe reduce the
\* trim scale, add the scaled differences, normalise, set_trim().
ic_endstops_trim(c, depth, lowest, tower_deviation) ==
    LET trim == [t \in 1 .. 3 |-> Min2(c.trim[t], 0)]
        reduce == tower_deviation >= c.last_deviation
                  /\ c.trimscale * 95 >= 90 * TRIMSCALE_ONE
        trimscale == IF reduce THEN (c.trimscale * 9) \div 10 ELSE c.trimscale
        moved == [t \in 1 .. 3 |-> trim[t] + (lowest - depth[t + 1]) * trimscale]
    IN  IF \E t \in 1 .. 3 : trim[t] < TRIM_FLOOR
        THEN ic_return(c, "trim_sanity", FALSE, 0)
        ELSE [c EXCEPT !.trimscale = trimscale,
                       !.last_deviation = tower_deviation,
                       !.trim = normalize_trim(moved)]

\* The "ES" section.  depth = <<centre, X, Y, Z>> in micrometres.
ic_endstops(c, depth, get_trim_ok) ==
    LET lowest == Min2(depth[1], Min3(<<depth[2], depth[3], depth[4]>>))
        highest == Max2(depth[1], Max3(<<depth[2], depth[3], depth[4]>>))
        tower_deviation == highest - lowest
        reset == IF c.needs_reset
                 THEN [c EXCEPT !.last_deviation = LAST_DEVIATION_RESET,
                                !.trimscale = TRIMSCALE_RESET,
                                !.needs_reset = FALSE]
                 ELSE c
    IN  IF Abs(tower_deviation) <= IC_TARGET
        THEN [reset EXCEPT !.es_in_tolerance = TRUE]
        ELSE IF ~get_trim_ok
        THEN ic_return([reset EXCEPT !.es_in_tolerance = FALSE], "trim_query", FALSE, 0)
        ELSE ic_endstops_trim([reset EXCEPT !.es_in_tolerance = FALSE],
                              depth, lowest, tower_deviation)

\* A "DR" section that holds three times the deviation against the target itself.
ic_delta_radius_tight(c, depth, get_delta_radius_ok) ==
    LET deviation3 == (3 * depth[1]) - (depth[2] + depth[3] + depth[4])
    IN  IF ~get_delta_radius_ok
        THEN ic_return(c, "radius_query", FALSE, 0)
        ELSE IF Abs(deviation3) <= IC_TARGET
        THEN [c EXCEPT !.dr_in_tolerance = TRUE]
        ELSE [c EXCEPT !.dr_in_tolerance = FALSE,
                       !.delta_radius3 = @ + (deviation3 * 2)]

\* The "DR" section; deviation3 = 3 * (depth[TP_CTR] - avg), dr_factor = 2.
ic_delta_radius(c, depth, get_delta_radius_ok) ==
    LET deviation3 == (3 * depth[1]) - (depth[2] + depth[3] + depth[4])
    IN  IF ~get_delta_radius_ok
        THEN ic_return(c, "radius_query", FALSE, 0)
        ELSE IF Abs(deviation3) <= 3 * IC_TARGET
        THEN [c EXCEPT !.dr_in_tolerance = TRUE]
        ELSE [c EXCEPT !.dr_in_tolerance = FALSE,
                       !.delta_radius3 = @ + (deviation3 * 2)]

\* The end of a pass: "Done with ALL tasks?", then outer_i++ and the loop condition.
ic_end_of_pass(c) ==
    IF c.es_in_tolerance /\ c.dr_in_tolerance
    THEN ic_return(c, "tolerance", TRUE, 0)
    ELSE IF ic_loop_continues(c.outer_i + 1)
    THEN [c EXCEPT !.outer_i = @ + 1]
    ELSE ic_return([c EXCEPT !.outer_i = @ + 1], "cap", TRUE, 0)

ic_end_of_pass_unless_returned(dr) == IF dr.pc = "done" THEN dr ELSE ic_end_of_pass(dr)

\* A pass from the "DR" section on, unless the "ES" section returned.
ic_after_endstops(es, depth, get_delta_radius_ok) ==
    IF es.pc = "done" THEN es
    ELSE ic_end_of_pass_unless_returned(ic_delta_radius(es, depth, get_delta_radius_ok))

\* One pass of the main loop.  steps = <<centre, X, Y, Z>>: what run_probe() reads at
\* the centre and near the three towers; fail: the call that fails in this pass, if
\* any.  probes counts the do_probe_at() calls (probe_priming is 0).
ic_pass(c, steps, fail) ==
    IF fail = "prime"
    THEN ic_return(c, "probe", FALSE, 0)
    ELSE IF ~probe_result(steps[1], fail # "ctr").ok
    THEN ic_return(c, "probe", FALSE, 1)
    ELSE IF ~probe_result(steps[2], fail # "x").ok
    THEN ic_return(c, "probe", FALSE, 2)
    ELSE IF ~probe_result(steps[3], fail # "y").ok
    THEN ic_return(c, "probe", FALSE, 3)
    ELSE IF ~probe_result(steps[4], fail # "z").ok
    THEN ic_return(c, "probe", FALSE, 4)
    ELSE ic_after_endstops(
             ic_endstops([c EXCEPT !.probes = @ + 4],
                         [t \in 1 .. 4 |-> zsteps_to_mm(steps[t])],
                         fail # "get_trim"),
             [t \in 1 .. 4 |-> zsteps_to_mm(steps[t])],
             fail # "get_delta_radius")

\* G32 begins: the part of iterative_calibration() before its main loop.
IC_Start(keep_settings) ==
    /\ ic.pc = "idle"
    /\ ic' = [ic EXCEPT !.pc = "loop", !.outer_i = 0, !.probes = 0,
                        !.trim = IF keep_settings THEN @ ELSE <<0, 0, 0>>]
    /\ surface_transform' =
          IF keep_settings
          THEN set_adjust_function(surface_transform, FALSE)
          ELSE set_virtual_shimming(set_adjust_function(surface_transform, FALSE), 0, 0, 0)
    /\ depth_map' = zero_depth_maps
    /\ method_prefix_idx' = push_prefix(method_prefix_idx)
    /\ UNCHANGED <<grid_vars, sd_file, last, nearest, bili, energy, calib_vars>>

ic_pass_done(c) ==
    /\ ic' = c
    /\ method_prefix_idx' =
          IF c.pc # "done"
          THEN pop_prefix(push_prefix(pop_prefix(push_prefix(method_prefix_idx))))
          ELSE IF ic_exit_leaks_prefix(c.reason)
          THEN pop_prefix(push_prefix(method_prefix_idx))
          ELSE pop_prefix(method_prefix_idx)
    /\ last' = IF c.pc = "done"
               THEN [cmd |-> "G32", ok |-> c.ret, unwritten |-> {}]
               ELSE last
    /\ UNCHANGED <<grid_vars, surface_transform, depth_map, sd_file, nearest, bili, energy,
                   calib_vars>>

\* One pass of the main loop of iterative_calibration().
IC_Pass(steps, fail) ==
    /\ ic.pc = "loop"
    /\ ic_pass_done(ic_pass(ic, steps, fail))

\* What the probe reads in a pass (steps; 100 steps per mm): level; within 30
\* micrometres; centre 0.1 mm deep; towers 0.1 mm deep; Z tower 3 mm deep; X tower
\* nearer than 100 steps.
IC_Readings ==
    { <<1000, 1000, 1000, 1000>>, <<1002, 1000, 1001, 999>>, <<1010, 1000, 1000, 1000>>,
      <<1000, 1010, 1010, 1010>>, <<1000, 1000, 1000, 1300>>, <<1000, 50, 1000, 1000>> }
IC_FailSites == {"none", "prime", "ctr", "x", "y", "z", "get_trim", "get_delta_radius"}

\* The statics of the "ES" section and the endstop trim when G32 is given: as at power
\* up, or as an earlier run left them.
IC_Statics ==
    { [last_deviation |-> 0, trimscale |-> 0],
      [last_deviation |-> 100, trimscale |-> 85293] }
IC_Trims == { <<0, 0, 0>>, <<0, -40000000, -250000000>>,
              <<20000000, -10000000, -30000000>> }

InitIC ==
    /\ probe_radius = ConfigRadius
    /\ probe_offset = <<0, 0>>
    /\ test_point = grid_points(ConfigRadius)
    /\ active_point = init_active_points(ConfigRadius)
    /\ surface_transform = [depth_ptr |-> "nullptr", depth |-> ZeroDepths,
                            depth_enabled |-> FALSE, have_depth_map |-> FALSE,
                            plane_enabled |-> FALSE, active |-> TRUE,
                            tri_z |-> <<0, 0, 0>>]
    /\ depth_map = zero_depth_maps
    /\ sd_file = NoFile
    /\ method_prefix_idx = 0
    /\ last = [cmd |-> "config", ok |-> TRUE, unwritten |-> {}]
    /\ nearest = [pos |-> <<0, 0>>,
                  idx |-> find_nearest_test_point(<<0, 0>>, test_point, active_point)]
    /\ bili = NoAdjust
    /\ energy = NoEnergy
    /\ IdleCalibrations
    /\ \E needs_reset \in BOOLEAN, statics \in IC_Statics, trim \in IC_Trims :
          /\ needs_reset <=> statics.trimscale = 0
          /\ ic = [NoRun EXCEPT !.needs_reset = needs_reset,
                                !.last_deviation = statics.last_deviation,
                                !.trimscale = statics.trimscale,
                                !.trim = trim]

ICStart == \E keep_settings \in BOOLEAN : IC_Start(keep_settings)

ICPass == \E steps \in IC_Readings, fail \in IC_FailSites : IC_Pass(steps, fail)

NextIC == ICStart \/ ICPass

SpecIC == InitIC /\ [][NextIC]_vars

\* The loop is not held up: a pass that can run does run.
SpecICFair == SpecIC /\ WF_vars(ICPass)

\* A run stays within its bounds: never more than IC_MAX_ITERATIONS passes, four probes
\* for every pass made, fewer only in a pass a probe failed in; and a run that is over
\* ended in one of the returns of the loop, with both calibrations in tolerance exactly
\* when that is why it ended.
ic_within_bounds ==
    /\ ic.outer_i \in 0 .. IC_MAX_ITERATIONS
    /\ ic.pc = "loop" => /\ ic.outer_i < IC_MAX_ITERATIONS
                         /\ ic.probes = 4 * ic.outer_i
                         /\ ic.outer_i > 0 => ~(ic.es_in_tolerance /\ ic.dr_in_tolerance)
    /\ ic.pc = "done" =>
          /\ ic.reason \in IC_Exits
          /\ ic.probes <= 4 * IC_MAX_ITERATIONS
          /\ ic.reason = "cap" => /\ ic.outer_i = IC_MAX_ITERATIONS
                                  /\ ic.probes = 4 * IC_MAX_ITERATIONS
          /\ ic.reason = "tolerance" <=> (ic.es_in_tolerance /\ ic.dr_in_tolerance)
          /\ ic.reason = "tolerance" => ic.probes = 4 * (ic.outer_i + 1)
          /\ ic.reason = "probe" => /\ ic.probes >= 4 * ic.outer_i
                                    /\ ic.probes <= 4 * (ic.outer_i + 1)
          /\ ic.reason # "probe" => ic.probes % 4 = 0
          /\ ic.ret <=> ic.reason \in {"tolerance", "cap"}

\* C10: iterative calibration always terminates: it makes at most 20 passes of four
\* probes each, and it ends when endstops and delta radius are both in tolerance, when
\* the cap is reached, or at a failure (of a probe, of the trim sanity check, or of a
\* query of the trim or the delta radius).
C10_IterativeCalibrationTerminates ==
    /\ []ic_within_bounds
    /\ (ic.pc = "loop") ~> (ic.pc = "done")

\* C10, its case: a run has made all 20 passes, 80 probes, and ended at the cap.
C10_Witness ==
    /\ ic.pc = "done"
    /\ ic.reason = "cap"
    /\ ic.outer_i = IC_MAX_ITERATIONS
    /\ ic.probes = 4 * IC_MAX_ITERATIONS

LAST_ENERGY_N == 6
\* float global_target = 0.010 (mm), here in micrometres, as the energies are
HC_GLOBAL_TARGET == 10
\* if(sigma < 0.01), in micrometres
HC_STALL_SIGMA == 10
\* clamp(annealing_temp_mul, 0, 50)
TEMP_MUL_MAX == 50
\* clamp(annealing_tries, 10, 1000)
ANNEALING_TRIES_MIN == 10
ANNEALING_TRIES_MAX == 1000
\* if(try_mod_5 == 0)
HOUSEKEEPING_EVERY == 5
\* clamp(max_temp, 0, 2), in thousandths
MAX_TEMP_MAX == 2000
\* if(temp < 0.01) temp = 0.01, in thousandths
TEMP_FLOOR == 10

\* A temperature that is not held at 0.01.
hc_temp_unfloored(annealing_try, annealing_tries, max_temp) ==
    [num |-> (max_temp * annealing_tries) - (annealing_try * max_temp),
     den |-> annealing_tries]

\* "Set the annealing temperature": tempFraction = annealing_try / annealing_tries,
\* temp = max_temp - (tempFraction * max_temp), kept as num / den thousandths.
hc_temp(annealing_try, annealing_tries, max_temp) ==
    IF (max_temp * annealing_tries) - (annealing_try * max_temp) < TEMP_FLOOR * annealing_tries
    THEN [num |-> TEMP_FLOOR, den |-> 1]
    ELSE [num |-> (max_temp * annealing_tries) - (annealing_try * max_temp),
          den |-> annealing_tries]

\* The head of a try: temp for this annealing_try.
hc_set_temp(h) ==
    [h EXCEPT !.temp = hc_temp(h.annealing_try, h.annealing_tries, h.max_temp),
              !.temp_try = h.annealing_try, !.temp_set = TRUE]

\* "Ensure parallel annealing temp multipliers aren't zero", then "aren't crazy".
hc_sanitize_temp_mul(m) == clamp(IF m = 0 THEN 1 ELSE m, 0, TEMP_MUL_MAX)

\* calc_statistics(values, n_values, mu, sigma, min, max): mu = mu_num / n and
\* sigma = sqrt(dev / n) with dev = dev_num / n, so sigma squared is dev_num / (n * n).
RECURSIVE stats_sum(_, _)
stats_sum(values, k) == IF k = 0 THEN 0 ELSE values[k] + stats_sum(values, k - 1)

calc_statistics(values, n_values) ==
    [mu_num |-> stats_sum(values, n_values), n |-> n_values,
     dev_num |-> (n_values * stats_sum([k \in 1 .. n_values |-> values[k] * values[k]],
                                       n_values))
                 - (stats_sum(values, n_values) * stats_sum(values, n_values))]

\* sigma < limit, both being at least zero
sigma_below(stats, limit) == stats.dev_num < limit * limit * stats.n * stats.n

\* From the end of the annealing loop to the return: endE is the energy of the
\* settings reached; the trim is normalised and handed to set_trim(); returns true.
hc_finish(h, endE) ==
    [h EXCEPT !.pc = "done", !.success = (endE <= HC_GLOBAL_TARGET),
              !.trim = normalize_trim(h.trim), !.ret = TRUE]

\* A housekeeping that looks at sigma before six readings are in.
hc_housekeeping_any_count(h, tempE, shifted, full) ==
    IF sigma_below(calc_statistics(shifted, LAST_ENERGY_N), HC_STALL_SIGMA)
    THEN [h EXCEPT !.last_energy = shifted, !.last_energy_count = LAST_ENERGY_N - 1,
                   !.readings = @ + 1, !.tempE = tempE,
                   !.exit = "stall", !.stalled = TRUE]
    ELSE [h EXCEPT !.last_energy = shifted,
                   !.last_energy_count = IF full THEN LAST_ENERGY_N - 1 ELSE @ + 1,
                   !.readings = @ + 1, !.tempE = tempE,
                   !.exit = IF tempE <= HC_GLOBAL_TARGET THEN "target" ELSE @,
                   !.within_target = (tempE <= HC_GLOBAL_TARGET)]

\* "Housekeeping" of a try with try_mod_5 == 0: tempE goes into last_energy[]; once
\* six readings are in, a sigma below 0.01 is a stall; then the global target.
hc_housekeeping(h, tempE, shifted, full) ==
    IF full /\ sigma_below(calc_statistics(shifted, LAST_ENERGY_N), HC_STALL_SIGMA)
    THEN [h EXCEPT !.last_energy = shifted, !.last_energy_count = LAST_ENERGY_N - 1,
                   !.readings = @ + 1, !.tempE = tempE,
                   !.exit = "stall", !.stalled = TRUE]
    ELSE [h EXCEPT !.last_energy = shifted,
                   !.last_energy_count = IF full THEN LAST_ENERGY_N - 1 ELSE @ + 1,
                   !.readings = @ + 1, !.tempE = tempE,
                   !.exit = IF tempE <= HC_GLOBAL_TARGET THEN "target" ELSE @,
                   !.within_target = (tempE <= HC_GLOBAL_TARGET)]

\* The end of a try: a break leaves the loop as it is, else annealing_try++ and the
\* loop condition.
hc_try_end(h, tempE) ==
    IF h.exit # "none"
    THEN hc_finish(h, tempE)
    ELSE IF h.annealing_try + 1 < h.annealing_tries
    THEN [h EXCEPT !.annealing_try = @ + 1]
    ELSE hc_finish([h EXCEPT !.annealing_try = @ + 1, !.exit = "tries"], tempE)

\* One try of the annealing loop.  moved: where move_randomly_towards() leaves
\* cur_set.trim when the endstop group is active; tempE: what
\* simulate_FK_and_get_energy() yields for the settings this try ends with.
hc_try(h, moved, tempE) ==
    hc_try_end(
        IF h.annealing_try % HOUSEKEEPING_EVERY = 0
        THEN hc_housekeeping([h EXCEPT !.trim = IF h.endstop_active THEN moved ELSE @],
                             tempE,
                             [j \in 1 .. LAST_ENERGY_N |->
                                 IF j = 1 THEN tempE ELSE h.last_energy[j - 1]],
                             h.last_energy_count + 1 >= LAST_ENERGY_N)
        ELSE [h EXCEPT !.trim = IF h.endstop_active THEN moved ELSE @],
        tempE)

\* heuristic_calibration() up to its surface scan: the sanity checks of its arguments
\* and of the multipliers (in the order endstop, delta radius, arm length, tower
\* angle, virtual shimming), the locals of the annealing.  trim is cur_set.trim.
hc_begin(h, run, trim) ==
    [h EXCEPT !.pc = "anneal",
              !.simulate_only = run.simulate_only, !.keep_settings = run.keep_settings,
              !.endstop_active = run.endstop_active, !.vs_active = run.vs_active,
              !.temp_mul = [g \in 1 .. 5 |-> hc_sanitize_temp_mul(run.temp_mul[g])],
              !.annealing_tries = clamp(run.annealing_tries, ANNEALING_TRIES_MIN,
                                        ANNEALING_TRIES_MAX),
              !.annealing_try = 0,
              !.last_energy = [j \in 1 .. LAST_ENERGY_N |-> 0], !.last_energy_count = 0,
              !.readings = 0, !.trim = trim, !.tempE = 0,
              !.stalled = FALSE, !.within_target = FALSE, !.success = FALSE,
              !.probe_failed = FALSE, !.exit = "none", !.ret = TRUE,
              !.max_temp = clamp(run.max_temp, 0, MAX_TEMP_MAX),
              !.temp_set = FALSE, !.temp_try = 0, !.temp = [num |-> 0, den |-> 1]]

\* A set-up that goes on to the annealing whatever the scan returned.
hc_started_whatever_scan(h, st_off, st_set, live_scan, scan, zero_all_offsets) ==
    /\ hc' = [h EXCEPT !.probe_failed = live_scan /\ ~scan.ok]
    /\ ic' = [ic EXCEPT !.trim = IF zero_all_offsets THEN <<0, 0, 0>> ELSE @]
    /\ surface_transform' = st_set
    /\ depth_map' = IF live_scan THEN scan.dm ELSE zero_depth_maps
    /\ method_prefix_idx' = push_prefix(push_prefix(method_prefix_idx))
    /\ UNCHANGED <<grid_vars, sd_file, last, nearest, bili, energy, foc, pr, calc,
                   best_probe_calibration>>

\* The set-up once the surface is scanned (or not: live_scan = FALSE).  A probe that
\* fails in the scan (probe_failed) ends the run: pop_prefix(), return false.
hc_started(h, st_off, st_set, live_scan, scan, zero_all_offsets) ==
    /\ hc' = IF live_scan /\ ~scan.ok
             THEN [h EXCEPT !.pc = "done", !.exit = "scan", !.ret = FALSE,
                            !.probe_failed = TRUE]
             ELSE h
    /\ ic' = [ic EXCEPT !.trim = IF zero_all_offsets THEN <<0, 0, 0>> ELSE @]
    /\ surface_transform' = IF live_scan /\ ~scan.ok THEN st_off ELSE st_set
    /\ depth_map' = IF live_scan THEN scan.dm ELSE zero_depth_maps
    /\ method_prefix_idx' =
          IF live_scan /\ ~scan.ok
          THEN pop_prefix(pop_prefix(push_prefix(push_prefix(method_prefix_idx))))
          ELSE push_prefix(push_prefix(method_prefix_idx))
    /\ last' = IF live_scan /\ ~scan.ok
               THEN [cmd |-> "G31", ok |-> FALSE, unwritten |-> {}]
               ELSE last
    /\ UNCHANGED <<grid_vars, sd_file, nearest, bili, energy, foc, pr, calc, best_probe_calibration>>

\* G31 with annealing letters begins: heuristic_calibration() up to its annealing
\* loop.  run holds the letters given and the multipliers the groups carry;
\* trim_on_entry keeps what the trim store held when the handler was entered.
HC_Start(run, bed, fail_at) ==
    /\ hc.pc = "idle"
    /\ hc_started(hc_begin([hc EXCEPT !.trim_on_entry = ic.trim], run,
                           IF run.zero_all_offsets THEN <<0, 0, 0>> ELSE ic.trim),
                  hc_setup(surface_transform, run.vs_active, FALSE, FALSE,
                           run.zero_all_offsets, surface_transform.tri_z),
                  hc_setup(surface_transform, run.vs_active, run.simulate_only,
                           run.keep_settings, run.zero_all_offsets,
                           IF run.zero_all_offsets THEN <<0, 0, 0>>
                           ELSE surface_transform.tri_z),
                  ~run.simulate_only /\ ~run.keep_settings,
                  IF ~run.simulate_only /\ ~run.keep_settings
                  THEN depth_map_print_surface(probe_radius, test_point, active_point,
                                               zero_depth_maps, bed, fail_at, FALSE, 0)
                  ELSE [ok |-> TRUE, dm |-> zero_depth_maps],
                  run.zero_all_offsets)

\* What a try leaves outside the locals: set_trim() in the loop (endstop group) and
\* after it, set_virtual_shimming() in the loop (virtual shimming group), and at the
\* end the two pop_prefix() and the handler's return.
hc_try_done(h, shim) ==
    /\ hc' = h
    /\ ic' = [ic EXCEPT !.trim = IF h.endstop_active \/ h.pc = "done" THEN h.trim ELSE @]
    /\ surface_transform' =
          IF h.vs_active
          THEN set_virtual_shimming(surface_transform, shim[1], shim[2], shim[3])
          ELSE surface_transform
    /\ method_prefix_idx' = IF h.pc = "done"
                            THEN pop_prefix(pop_prefix(method_prefix_idx))
                            ELSE method_prefix_idx
    /\ last' = IF h.pc = "done"
               THEN [cmd |-> "G31", ok |-> h.ret, unwritten |-> {}]
               ELSE last
    /\ UNCHANGED <<grid_vars, depth_map, sd_file, nearest, bili, energy, foc, pr, calc,
                   best_probe_calibration>>

\* One try of the annealing loop, and the rest of the function when it is the last.
HC_Try(moved, shim, tempE) ==
    /\ hc.pc = "anneal"
    /\ hc_try_done(hc_try(hc_set_temp(hc), moved, tempE), shim)

\* The runs tried: a live run of 35 tries on the endstops; a simulation with T0 that
\* zeroes the offsets and anneals the shimming, the groups carrying multipliers of
\* 0, -3, 70, 50 and 2; a live run of 12 tries that keeps the old depth map; a live
\* run of 10 tries on the shimming alone.  Their maximum temperatures (U,
\* thousandths) are the default 0.35, 5, 0.02 and the default.
HC_Runs ==
    { [simulate_only |-> FALSE, keep_settings |-> FALSE, zero_all_offsets |-> FALSE,
       endstop_active |-> TRUE, vs_active |-> FALSE, temp_mul |-> <<1, 1, 1, 1, 1>>,
       annealing_tries |-> 35, max_temp |-> 350],
      [simulate_only |-> TRUE, keep_settings |-> FALSE, zero_all_offsets |-> TRUE,
       endstop_active |-> FALSE, vs_active |-> TRUE, temp_mul |-> <<0, -3, 70, 50, 2>>,
       annealing_tries |-> 0, max_temp |-> 5000],
      [simulate_only |-> FALSE, keep_settings |-> TRUE, zero_all_offsets |-> FALSE,
       endstop_active |-> TRUE, vs_active |-> FALSE, temp_mul |-> <<2, 0, 1, 1, 1>>,
       annealing_tries |-> 12, max_temp |-> 20],
      [simulate_only |-> FALSE, keep_settings |-> TRUE, zero_all_offsets |-> FALSE,
       endstop_active |-> FALSE, vs_active |-> TRUE, temp_mul |-> <<1, 1, 1, 1, 1>>,
       annealing_tries |-> 10, max_temp |-> 350] }

\* Energies (micrometres) a try may end with, and where the annealing may leave the
\* trim (1e-5 micrometres) and the shimming.
HC_Energies == {10, 11, 40}
HC_MovedTrims == { <<-10000000, -30000000, -20000000>>, <<0, -5000000, 0>> }
HC_ScanFailSites == {NoFail, FailAt("prime"), FailAt("center"), FailAtPoint(2)}

HCStart ==
    \E run \in HC_Runs :
       \E fail_at \in (IF ~run.simulate_only /\ ~run.keep_settings
                       THEN HC_ScanFailSites ELSE {NoFail}) :
          HC_Start(run, TiltedBed, fail_at)

HCTry ==
    \E moved \in (IF hc.endstop_active THEN HC_MovedTrims ELSE {hc.trim}),
       shim \in (IF hc.vs_active THEN ShimResults ELSE {<<0, 0, 0>>}),
       tempE \in (IF hc.annealing_try % HOUSEKEEPING_EVERY = 0
                     \/ hc.annealing_try + 1 >= hc.annealing_tries
                  THEN HC_Energies ELSE {hc.tempE}) :
       HC_Try(moved, shim, tempE)

NextHC == HCStart \/ HCTry

SpecHC == InitIC /\ [][NextHC]_vars

(***************************************************************************)
(* SpecCal: one calibration command, G32 or G31 with annealing letters     *)
(***************************************************************************)
CalICStart == hc.pc = "idle" /\ ICStart
CalICPass == ICPass
CalHCStart == ic.pc = "idle" /\ HCStart
CalHCTry == HCTry

NextCal == CalICStart \/ CalICPass \/ CalHCStart \/ CalHCTry

SpecCal == InitIC /\ [][NextCal]_vars

\* This step is a pass of G32 whose "ES" section reached its set_trim().
ic_es_set_trim ==
    /\ ic.pc = "loop"
    /\ ic'.probes = ic.probes + 4
    /\ ~ic'.es_in_tolerance
    /\ ic'.reason \notin {"probe", "trim_query", "trim_sanity"}

\* This step ends a heuristic calibration past its annealing loop.
hc_final_set_trim == hc.pc = "anneal" /\ hc'.pc = "done"

\* C12: every trim a calibrator writes to the trim store as its adjusted output (the
\* "ES" section of each G32 pass, heuristic calibration after its annealing loop) has
\* its largest component equal to 0.
C12_WrittenTrimHasMaxZero ==
    [][(ic_es_set_trim \/ hc_final_set_trim) => Max3(ic'.trim) = 0]_vars

\* C12, its case: a heuristic calibration ended past its loop, the annealing having
\* left the trim at {-0.1, -0.3, -0.2}, and the store holds {0, -0.2, -0.1}.
C12_Witness ==
    /\ hc.pc = "done"
    /\ hc.exit # "scan"
    /\ ic.trim = <<0, -20000000, -10000000>>

\* C13: in G32, a trim with a component above 0 or below -5 mm, read from the store
\* or computed by the "ES" section, makes the run return false, and that trim is not
\* written to the store.
C13_TrimOutOfRangeAborts ==
    [][/\ (ic_es_set_trim /\ \E t \in 1 .. 3 : ic.trim[t] > 0 \/ ic.trim[t] < TRIM_FLOOR)
          => (ic'.pc = "done" /\ ~ic'.ret /\ ic'.trim = ic.trim)
       /\ (ic.pc = "loop" /\ ic'.trim # ic.trim)
          => \A t \in 1 .. 3 : ic'.trim[t] <= 0 /\ ic'.trim[t] >= TRIM_FLOOR]_vars

hc_six_flat_readings ==
    /\ hc.readings >= LAST_ENERGY_N
    /\ sigma_below(calc_statistics(hc.last_energy, LAST_ENERGY_N), HC_STALL_SIGMA)

\* C16: the annealing declares a stall exactly at a check of a try with
\* annealing_try % 5 = 0 at which six readings are in last_energy[] and their sigma is
\* below 0.01: never with fewer than six readings, and always when the six last
\* readings are the same.
C16_StallExactlyOnSixFlatReadings ==
    /\ hc.stalled =>
          /\ hc.exit = "stall"
          /\ hc.pc = "done"
          /\ hc.annealing_try % HOUSEKEEPING_EVERY = 0
          /\ hc_six_flat_readings
    /\ (hc.pc # "idle" /\ hc_six_flat_readings) => hc.stalled
    /\ ( /\ hc.pc # "idle"
         /\ hc.readings >= LAST_ENERGY_N
         /\ \A j \in 1 .. LAST_ENERGY_N : hc.last_energy[j] = hc.last_energy[1] )
       => hc.stalled

\* C16, its case: the sixth of six equal readings has stalled the run.
C16_Witness ==
    /\ hc.stalled
    /\ hc.readings = LAST_ENERGY_N
    /\ hc.last_energy = <<40, 40, 40, 40, 40, 40>>

\* What heuristic_calibration() returns to its caller when the annealing ends within
\* the global target.
hc_result_on_target == hc_finish([NoAnneal EXCEPT !.exit = "target"], 0).ret

\* C17: a run tells a stall from a success: a reading at a check of the annealing
\* that is at or below the global target 0.010 ends the run as within target and not
\* as stalled, and a run ended by a stall returns something else than a run ended by
\* reaching the target.
C17_StallDistinctFromSuccess ==
    /\ (hc.pc = "done" /\ hc.exit \in {"stall", "target"} /\ hc.tempE <= HC_GLOBAL_TARGET)
          => (hc.within_target /\ ~hc.stalled)
    /\ (hc.pc = "done" /\ hc.exit = "stall") => hc.ret # hc_result_on_target

\* C18: once heuristic_calibration() has checked its inputs, the temperature
\* multiplier of each of the five groups is within 0..50 and is not zero, whatever
\* was configured (zero, below zero, above 50).
C18_TempMulInRangeAndNotZero ==
    hc.pc # "idle" =>
        \A g \in 1 .. 5 :
            /\ hc.temp_mul[g] >= 0
            /\ hc.temp_mul[g] <= TEMP_MUL_MAX
            /\ hc.temp_mul[g] # 0

\* ---------------------------------------------------------------------------------
\* find_optimal_config(): the shrinking search of the annealing, on its own.
\* Lengths are in 1/10000 mm here, so that a tenth of a range wider than the target
\* is never rounded to nothing.
\* ---------------------------------------------------------------------------------

FOC_UNITS_PER_MM == 10000

\* float target = 0.005
FOC_TARGET == 50

\* for(j=0; j<250; j++)
FOC_MAX_STEPS == 250

\* float binsearch_width = 0.1, in percent; heuristic_calibration() clamps it to 0..0.5
BINSEARCH_WIDTH_DEFAULT == 10

BINSEARCH_WIDTH_MAX == 50

\* The energy the test function and simulate_FK_and_get_energy() give for a value of
\* the parameter, for a landscape that falls to `minimum` at the rate `left` on one
\* side and rises from it at the rate `right` on the other.
foc_energy(landscape, value) ==
    IF value <= landscape.minimum
    THEN landscape.left * (landscape.minimum - value)
    ELSE landscape.right * (value - landscape.minimum)

\* One pass of the for loop with energy_min and energy_max already measured.
foc_step(min, max, energy_min, energy_max, binsearch_width) ==
    LET max1 == IF energy_min < energy_max
                THEN max - ((max - min) * binsearch_width) \div 100
                ELSE max
        min1 == IF energy_min > energy_max
                THEN min + ((max1 - min) * binsearch_width) \div 100
                ELSE min
    IN  [min |-> min1, max |-> max1]

\* The for loop from pass j on.  A pass that moves neither end is repeated unchanged
\* by every later pass, up to the last.
RECURSIVE foc_loop(_, _, _, _, _, _)
foc_loop(landscape, min, max, binsearch_width, target, j) ==
    IF j >= FOC_MAX_STEPS \/ max - min <= target
    THEN [min |-> min, max |-> max, steps |-> j]
    ELSE LET n == foc_step(min, max, foc_energy(landscape, min),
                           foc_energy(landscape, max), binsearch_width)
         IN  IF n.min = min /\ n.max = max
             THEN [min |-> min, max |-> max, steps |-> FOC_MAX_STEPS]
             ELSE foc_loop(landscape, n.min, n.max, binsearch_width, target, j + 1)

\* Both overloads: return (min + max) / 2.0f, kept here as its double.
find_optimal_config(landscape, min, max, binsearch_width, target) ==
    foc_loop(landscape, min, max, clamp(binsearch_width, 0, BINSEARCH_WIDTH_MAX), target, 0)

foc_store(landscape, min, max, r) ==
    /\ foc' = [called |-> TRUE, landscape |-> landscape, range_min |-> min,
               range_max |-> max, min |-> r.min, max |-> r.max, steps |-> r.steps,
               best_twice |-> r.min + r.max]
    /\ UNCHANGED <<grid_vars, depth_map, surface_transform, sd_file, method_prefix_idx,
                   last, nearest, bili, energy, ic, hc, best_probe_calibration,
                   pr, calc>>

FindOptimalConfig(landscape, min, max, binsearch_width) ==
    foc_store(landscape, min, max,
              find_optimal_config(landscape, min, max, binsearch_width, FOC_TARGET))

\* The ranges heuristic_calibration() searches: {-5, 0} for an endstop, {-3, 3} for a
\* tower angle, a radius offset or a shim.
FOC_Ranges == { <<-5 * FOC_UNITS_PER_MM, 0>>,
                <<-3 * FOC_UNITS_PER_MM, 3 * FOC_UNITS_PER_MM>> }

\* The places of the minimum, as thousandths of the range from its low end.
FOC_MinimumAt == {0, 40, 250, 500, 617, 950, 1000}

FOC_Slopes == {1, 3, 200}

FOC_Landscapes(min, max) ==
    { [minimum |-> min + ((max - min) * at) \div 1000, left |-> l, right |-> r]
        : at \in FOC_MinimumAt, l \in FOC_Slopes, r \in FOC_Slopes }

Search ==
    \E range \in FOC_Ranges :
      \E landscape \in FOC_Landscapes(range[1], range[2]) :
        FindOptimalConfig(landscape, range[1], range[2], BINSEARCH_WIDTH_DEFAULT)

NextSearch == Search

SpecSearch == InitIC /\ [][NextSearch]_vars

\* C15: for a landscape with one minimum inside the range, however lopsided, and the
\* default width, find_optimal_config() returns a value within the target of the
\* minimum, in at most 250 passes.
C15_SearchFindsTheMinimum ==
    foc.called =>
        /\ foc.steps <= FOC_MAX_STEPS
        /\ foc.best_twice - 2 * foc.landscape.minimum <= 2 * FOC_TARGET
        /\ 2 * foc.landscape.minimum - foc.best_twice <= 2 * FOC_TARGET

\* ---------------------------------------------------------------------------------
\* G29: measure_probe_repeatability() and the best score it keeps.
\* sigma is kept as its square, sigma_sq_num / sigma_sq_den, in steps squared; the
\* sentinel -1 is sigma_sq_num = -1; 0/0 is sigma_is_nan.
\* ---------------------------------------------------------------------------------

\* if(nSamples > 30)
MPR_MAX_SAMPLES == 30

\* if(steps > 50000): "Discarding result and trying again"
MPR_DISCARD_ABOVE == 50000

\* int min=9999, max=0
MPR_MIN_INIT == 9999

\* The sampling loop from reading k on: a probe that fails ends the trial, a reading
\* above 50000 steps is taken again.  short: the readings supplied ran out.
RECURSIVE mpr_sample(_, _, _, _)
mpr_sample(readings, nSamples, k, sample) ==
    IF Len(sample) >= nSamples
    THEN [ok |-> TRUE, short |-> FALSE, sample |-> sample]
    ELSE IF k > Len(readings)
    THEN [ok |-> FALSE, short |-> TRUE, sample |-> sample]
    ELSE IF ~probe_result(readings[k], TRUE).ok
    THEN [ok |-> FALSE, short |-> FALSE, sample |-> sample]
    ELSE IF readings[k] > MPR_DISCARD_ABOVE
    THEN mpr_sample(readings, nSamples, k + 1, sample)
    ELSE mpr_sample(readings, nSamples, k + 1, Append(sample, readings[k]))

RECURSIVE mpr_min(_, _)
mpr_min(sample, k) == IF k = 0 THEN MPR_MIN_INIT ELSE Min2(sample[k], mpr_min(sample, k - 1))

RECURSIVE mpr_max(_, _)
mpr_max(sample, k) == IF k = 0 THEN 0 ELSE Max2(sample[k], mpr_max(sample, k - 1))

\* "Mean", "Range and standard deviation": mu, dev, sigma = sqrtf(dev/nSamples), and
\* max - min.  With no sample at all sigma is the square root of 0/0.
mpr_score(sample, nSamples) ==
    [sigma_is_nan |-> nSamples = 0,
     sigma_sq_num |-> calc_statistics(sample, nSamples).dev_num,
     sigma_sq_den |-> IF nSamples = 0 THEN 1 ELSE nSamples * nSamples,
     range |-> mpr_max(sample, nSamples) - mpr_min(sample, nSamples)]

\* best_probe_calibration.sigma == -1
mpr_no_score(best) == ~best.sigma_is_nan /\ best.sigma_sq_num = -1

\* a < b for two sigmas; a comparison with a NaN is false
mpr_sigma_less(a, b) ==
    /\ ~a.sigma_is_nan
    /\ ~b.sigma_is_nan
    /\ a.sigma_sq_num * b.sigma_sq_den < b.sigma_sq_num * a.sigma_sq_den

\* A test that also takes a score equal to the best one.
mpr_is_best_or_equal(score, best) ==
    mpr_no_score(best) \/ ~mpr_sigma_less(best, score)

\* if(best_probe_calibration.sigma == -1 || sigma < best_probe_calibration.sigma)
mpr_is_best(score, best) ==
    mpr_no_score(best) \/ mpr_sigma_less(score, best)

\* "This is your best score so far!"
mpr_best(score, settings) ==
    [sigma_is_nan |-> score.sigma_is_nan, sigma_sq_num |-> score.sigma_sq_num,
     sigma_sq_den |-> score.sigma_sq_den, range |-> score.range,
     accel |-> settings.accel, debounce_count |-> settings.debounce_count,
     decelerate |-> settings.decelerate, eccentricity |-> settings.eccentricity,
     smoothing |-> settings.smoothing, priming |-> settings.priming,
     fast |-> settings.fast, slow |-> settings.slow]

\* The end of a trial: ret is what the function returns, improved whether it took
\* the score as the best one.
mpr_done(ret, improved, best) ==
    /\ best_probe_calibration' = best
    /\ last' = [cmd |-> "G29", ok |-> ret, unwritten |-> {}, improved |-> improved]
    /\ method_prefix_idx' = pop_prefix(push_prefix(method_prefix_idx))
    /\ UNCHANGED <<grid_vars, depth_map, surface_transform, sd_file, nearest, bili,
                   energy, ic, hc, foc, pr, calc>>

mpr_scored(score, settings) ==
    IF mpr_is_best(score, best_probe_calibration)
    THEN mpr_done(TRUE, TRUE, mpr_best(score, settings))
    ELSE mpr_done(TRUE, FALSE, best_probe_calibration)

mpr_sampled(nSamples, taken, settings) ==
    /\ ~taken.short
    /\ IF taken.ok
       THEN mpr_scored(mpr_score(taken.sample, nSamples), settings)
       ELSE mpr_done(FALSE, FALSE, best_probe_calibration)

\* measure_probe_repeatability(gcode).  settings: the probe settings in force once
\* the letters A, B, D, E, P, Q, U and V are read; nSamples: 10 or the letter S;
\* prime_ok: what prime_probe() returns; readings: the steps of the probes at the
\* centre, in the order they are made.
measure_probe_repeatability(settings, nSamples, prime_ok, readings) ==
    IF nSamples > MPR_MAX_SAMPLES \/ ~prime_ok
    THEN mpr_done(FALSE, FALSE, best_probe_calibration)
    ELSE mpr_sampled(nSamples, mpr_sample(readings, nSamples, 1, <<>>), settings)

MPR_Settings ==
    { [accel |-> 200, debounce_count |-> 0, decelerate |-> FALSE, eccentricity |-> FALSE,
       smoothing |-> 1, priming |-> 0, fast |-> 100, slow |-> 5],
      [accel |-> 90, debounce_count |-> 100, decelerate |-> TRUE, eccentricity |-> TRUE,
       smoothing |-> 3, priming |-> 20, fast |-> 50, slow |-> 2] }

MPR_Samples == {0, 3, 4, 31}

\* Readings in steps; 50 is a probe that did not run, 60000 one to discard.
MPR_Readings ==
    { <<1000, 1000, 1000, 1000>>, <<1000, 1002, 1000, 1002>>,
      <<1000, 1010, 1000, 1002>>, <<1003, 60000, 1000, 1001, 1000>>,
      <<10001, 10000, 10004, 10008>>, <<1000, 50, 1000, 1000>> }

Repeatability ==
    \E settings \in MPR_Settings, nSamples \in MPR_Samples, prime_ok \in BOOLEAN,
       readings \in MPR_Readings :
       measure_probe_repeatability(settings, nSamples, prime_ok, readings)

NextRepeat == Repeatability

SpecRepeat == InitIC /\ [][NextRepeat]_vars

\* C19: over any sequence of repeatability trials the best score changes only in a
\* trial whose sigma is strictly below the stored one, or when the stored sigma is
\* the sentinel -1; in every other trial no field of it changes, so that a stored
\* sigma never goes up.
C19_BestScoreOnlyImproves ==
    [][ /\ best_probe_calibration' # best_probe_calibration
           => \/ mpr_no_score(best_probe_calibration)
              \/ mpr_sigma_less(best_probe_calibration', best_probe_calibration)
        /\ (~mpr_no_score(best_probe_calibration) /\ ~best_probe_calibration.sigma_is_nan)
           => ~mpr_sigma_less(best_probe_calibration, best_probe_calibration')
        /\ (last'.cmd = "G29" /\ ~last'.improved)
           => best_probe_calibration' = best_probe_calibration ]_vars

\* C19, its case: a trial that ran to its end with the settings other than those of
\* the stored score has left the score standing.
C19_Witness ==
    /\ last.cmd = "G29"
    /\ last.ok
    /\ ~last.improved
    /\ best_probe_calibration.sigma_sq_num = 0
    /\ best_probe_calibration.accel = 90

\* ---------------------------------------------------------------------------------
\* M667 E on depth-map files of every length.
\* ---------------------------------------------------------------------------------

\* What /sd/dm_surface_transform may hold (values in 1e-5 mm): no value, one value
\* short, N*N values, one value more, twice N*N values.
LoadFileLengths ==
    {0, DM_GRID_ELEMENTS - 1, DM_GRID_ELEMENTS, DM_GRID_ELEMENTS + 1, 2 * DM_GRID_ELEMENTS}

LoadFiles ==
    { [exists |-> TRUE, vals |-> [k \in 1 .. n |-> 10000 + k]] : n \in LoadFileLengths }

InitLoad ==
    /\ probe_radius = ConfigRadius
    /\ probe_offset \in ConfigOffsets
    /\ test_point = grid_points(ConfigRadius)
    /\ active_point = init_active_points(ConfigRadius)
    /\ surface_transform = [depth_ptr |-> "nullptr", depth |-> ZeroDepths,
                            depth_enabled |-> FALSE, have_depth_map |-> FALSE,
                            plane_enabled |-> FALSE, active |-> TRUE,
                            tri_z |-> <<0, 0, 0>>]
    /\ depth_map = zero_depth_maps
    /\ sd_file \in LoadFiles
    /\ method_prefix_idx = 0
    /\ last = [cmd |-> "config", ok |-> TRUE, unwritten |-> {}]
    /\ nearest = [pos |-> <<0, 0>>,
                  idx |-> find_nearest_test_point(<<0, 0>>, grid_points(ConfigRadius),
                                                  init_active_points(ConfigRadius))]
    /\ IdleQueries

NextLoad == ConfigReload \/ CmdM667

SpecLoad == InitLoad /\ [][NextLoad]_vars

\* M667 E has just read the file into a fresh depth array.
m667_file_was_read ==
    /\ last.cmd = "M667E"
    /\ probe_offset = <<0, 0>>
    /\ sd_file.exists
    /\ surface_transform.depth_ptr = "heap"

\* C20: a load of a depth-map file that holds fewer or more values than N*N is
\* refused: depth correction is off after it.
C20_WrongCountIsRejected ==
    (m667_file_was_read /\ Len(sd_file.vals) # DM_GRID_ELEMENTS)
        => ~surface_transform.depth_enabled

\* ---------------------------------------------------------------------------------
\* G29, probe by probe: the sampling loop of measure_probe_repeatability().
\* ---------------------------------------------------------------------------------

\* What the trial leaves when it returns: the score, the prefix stack, the result.
pr_return(ret, improved, best) ==
    /\ best_probe_calibration' = best
    /\ last' = [cmd |-> "G29", ok |-> ret, unwritten |-> {}, improved |-> improved]
    /\ method_prefix_idx' = pop_prefix(push_prefix(method_prefix_idx))

pr_frame ==
    UNCHANGED <<grid_vars, depth_map, surface_transform, sd_file, nearest, bili, energy,
                ic, hc, foc, calc>>

\* From push_prefix("PR") to the loop: the letter S, prime_probe().  sample[] is not
\* initialised; each element is written before it is read.
PR_Start(settings, nSamples, prime_ok) ==
    /\ pr.pc # "sampling"
    /\ pr_frame
    /\ IF nSamples > MPR_MAX_SAMPLES \/ ~prime_ok
       THEN /\ pr' = [NoTrial EXCEPT !.pc = "done", !.nSamples = nSamples, !.ret = FALSE]
            /\ pr_return(FALSE, FALSE, best_probe_calibration)
       ELSE /\ pr' = [pc |-> "sampling", nSamples |-> nSamples, i |-> 0,
                      sample |-> [k \in 1 .. nSamples |-> 0], mu_sum |-> 0,
                      range |-> 0, ret |-> TRUE, settings |-> settings]
            /\ UNCHANGED <<best_probe_calibration, last, method_prefix_idx>>

\* "Mean" to the end of the function, once the loop has run out.
pr_scored(t, score) ==
    /\ pr' = [t EXCEPT !.pc = "done", !.range = score.range, !.ret = TRUE]
    /\ IF mpr_is_best(score, best_probe_calibration)
       THEN pr_return(TRUE, TRUE, mpr_best(score, t.settings))
       ELSE pr_return(TRUE, FALSE, best_probe_calibration)

\* for(i=0; i<nSamples; i++): the loop condition with the locals as they are in t.
pr_loop(t) ==
    IF t.i < t.nSamples
    THEN /\ pr' = t
         /\ UNCHANGED <<best_probe_calibration, last, method_prefix_idx>>
    ELSE pr_scored(t, mpr_score(t.sample, t.nSamples))

\* The body of the loop: one probe at the centre that reads `steps`.  sample[i] is
\* written first; a reading above 50000 steps is followed by i--, any other is
\* added to mu; then i++.
PR_Probe(steps) ==
    /\ pr.pc = "sampling"
    /\ pr_frame
    /\ IF pr.i >= pr.nSamples
       THEN pr_loop(pr)
       ELSE IF ~probe_result(steps, TRUE).ok
       THEN /\ pr' = [pr EXCEPT !.pc = "done", !.ret = FALSE]
            /\ pr_return(FALSE, FALSE, best_probe_calibration)
       ELSE IF steps > MPR_DISCARD_ABOVE
       THEN pr_loop([pr EXCEPT !.sample[pr.i + 1] = steps])
       ELSE pr_loop([pr EXCEPT !.sample[pr.i + 1] = steps, !.mu_sum = @ + steps,
                               !.i = @ + 1])

\* The steps a probe of the trial may read: one that did not run, three to keep, two
\* to discard.
PR_Steps == {50, 1000, 1002, 10004, 60000, 60001}

PR_Samples == {0, 2, 3, 31}

PRStart ==
    \E settings \in MPR_Settings, nSamples \in PR_Samples, prime_ok \in BOOLEAN :
        PR_Start(settings, nSamples, prime_ok)

PRProbe == \E steps \in PR_Steps : PR_Probe(steps)

NextTrial == PRStart \/ PRProbe

SpecTrial == InitIC /\ [][NextTrial]_vars

\* The loop goes on as long as zprobe returns from a probe.
SpecTrialFair == SpecTrial /\ WF_vars(PRProbe)

\* C21: the repeatability test makes a bounded number of probes and comes to its
\* end whatever the probes read, readings above 50000 steps included.
C21_RepeatabilityTestTerminates == (pr.pc = "sampling") ~> (pr.pc = "done")

\* C27: the range the repeatability test reports is max(samples) - min(samples), for
\* any samples of 100 to 50000 steps, also when all of them are above 9999 steps.
C27_RangeIsMaxMinusMin ==
    (pr.pc = "done" /\ pr.ret /\ pr.nSamples > 0) =>
        /\ \E k \in 1 .. pr.nSamples :
              \E j \in 1 .. pr.nSamples : pr.range = pr.sample[k] - pr.sample[j]
        /\ \A k \in 1 .. pr.nSamples :
              \A j \in 1 .. pr.nSamples : pr.range >= pr.sample[k] - pr.sample[j]

\* C22: in every run of G32 the gain of an adjusting pass is 1.3 * 0.9^k, k counting
\* the adjusting passes of this run so far whose deviation was not below that of the
\* pass before; neither the gain nor the remembered deviation comes from an earlier
\* run.  Pass by pass: the first pass of a run adjusts with 1.3, and a pass that
\* follows an adjusting pass of the same run takes nine tenths of its gain when the
\* deviation has not gone down, and the same gain when it has.
C22_GainDecaysWithinTheRun ==
    [][ ic_es_set_trim =>
          /\ ic.outer_i = 0 => ic'.trimscale = TRIMSCALE_RESET
          /\ (ic.outer_i > 0 /\ ~ic.es_in_tolerance) =>
                ic'.trimscale = IF ic'.last_deviation >= ic.last_deviation
                                THEN (ic.trimscale * 9) \div 10
                                ELSE ic.trimscale ]_vars

\* ---------------------------------------------------------------------------------
\* Helpers of the annealing, on their own: move_randomly_towards() and the tower
\* radius offsets handed over to the delta radius.  Lengths in 1/10000 mm.
\* ---------------------------------------------------------------------------------

\* + 0.001 in move_randomly_towards()
MRT_STEP_MIN == 10

\* lowest = 999
HC_LOWEST_INIT == 9990000

\* step /= overrun_divisor, the divisor in tenths (clamped to 0.5 .. 15)
mrt_divide(step, overrun_divisor10) == (step * 10) \div overrun_divisor10

\* if(best > value + target) { ... value += step; }: yields the value and the step
mrt_up(value, step, best, target, overrun_divisor10) ==
    IF best > value + target
    THEN IF value + step > best
         THEN [value |-> value + mrt_divide(step, overrun_divisor10),
               step |-> mrt_divide(step, overrun_divisor10)]
         ELSE [value |-> value + step, step |-> step]
    ELSE [value |-> value, step |-> step]

\* if(best < value - target) { ... value -= step; }
mrt_down(value, step, best, target, overrun_divisor10) ==
    IF best < value - target
    THEN IF value - step < best
         THEN [value |-> value - mrt_divide(step, overrun_divisor10),
               step |-> mrt_divide(step, overrun_divisor10)]
         ELSE [value |-> value - step, step |-> step]
    ELSE [value |-> value, step |-> step]

mrt_then_down(up, best, target, overrun_divisor10) ==
    mrt_down(up.value, up.step, best, target, overrun_divisor10)

\* move_randomly_towards(value, best, temp, target, overrun_divisor); random is what
\* ((float)rand() / RAND_MAX) * temp comes to.  The two ifs follow one another.
move_randomly_towards(value, best, random, target, overrun_divisor10) ==
    mrt_then_down(mrt_up(value, random + MRT_STEP_MIN, best, target, overrun_divisor10),
                  best, target, overrun_divisor10).value

MoveRandomlyTowards(value, best, random, overrun_divisor10) ==
    /\ calc' = [fn |-> "move_randomly_towards", value |-> value, best |-> best,
                step |-> random + MRT_STEP_MIN, target |-> FOC_TARGET,
                overrun_divisor10 |-> overrun_divisor10,
                result |-> move_randomly_towards(value, best, random, FOC_TARGET,
                                                 overrun_divisor10)]
    /\ UNCHANGED <<grid_vars, depth_map, surface_transform, sd_file, method_prefix_idx,
                   last, nearest, bili, energy, ic, hc, foc, best_probe_calibration, pr>>

\* "Find the tower radius with the lowest absolute value": the loop from tower k on.
RECURSIVE hc_lowest(_, _, _)
hc_lowest(tower_radius, k, lowest) ==
    IF k > 3
    THEN lowest
    ELSE hc_lowest(tower_radius, k + 1,
                   IF Abs(tower_radius[k]) < lowest THEN tower_radius[k] ELSE lowest)

\* "Steal that value from the individual radius settings and give it to the global
\* radius setting"
hc_steal(tower_radius, delta_radius, lowest) ==
    [fn |-> "steal_lowest", tower_radius |-> tower_radius, delta_radius |-> delta_radius,
     lowest |-> lowest,
     new_tower_radius |-> [k \in 1 .. 3 |-> tower_radius[k] - lowest],
     new_delta_radius |-> delta_radius + lowest]

StealLowest(tower_radius, delta_radius) ==
    /\ calc' = hc_steal(tower_radius, delta_radius,
                        hc_lowest(tower_radius, 1, HC_LOWEST_INIT))
    /\ UNCHANGED <<grid_vars, depth_map, surface_transform, sd_file, method_prefix_idx,
                   last, nearest, bili, energy, ic, hc, foc, best_probe_calibration, pr>>

\* Values, optima and random parts of a step tried (1/10000 mm); divisors in tenths.
MRT_Values == {-10000, 0, 40, 2500}
MRT_Bests == {-10000, 0, 100, 2500, 30000}
MRT_Randoms == {0, 90, 4990, 19990}
MRT_Divisors == {5, 20, 150}

\* Tower radius offsets tried, of every combination of signs.
HC_Offsets == {-10000, -2000, 0, 5000, 30000}

HelperMove ==
    \E value \in MRT_Values, best \in MRT_Bests, random \in MRT_Randoms,
       overrun_divisor10 \in MRT_Divisors :
       MoveRandomlyTowards(value, best, random, overrun_divisor10)

HelperSteal ==
    \E x \in HC_Offsets, y \in HC_Offsets, z \in HC_Offsets :
       StealLowest(<<x, y, z>>, 130 * FOC_UNITS_PER_MM)

NextHelpers == HelperMove \/ HelperSteal

SpecHelpers == InitIC /\ [][NextHelpers]_vars

\* The step a call draws would pass best when applied undivided.
mrt_would_pass ==
    \/ calc.best > calc.value /\ calc.value + calc.step > calc.best
    \/ calc.best < calc.value /\ calc.value - calc.step < calc.best

\* C23: a call of move_randomly_towards() with |best - value| > target moves value by
\* one step towards best, the step being random * temp + 0.001, divided once by the
\* overrun divisor when it would pass best undivided; a call with
\* |best - value| <= target leaves value as it is.
C23_OneStepTowardsBest ==
    calc.fn = "move_randomly_towards" =>
        calc.result =
            IF Abs(calc.best - calc.value) <= calc.target
            THEN calc.value
            ELSE calc.value
                 + (IF calc.best > calc.value THEN 1 ELSE -1)
                   * (IF mrt_would_pass
                      THEN mrt_divide(calc.step, calc.overrun_divisor10)
                      ELSE calc.step)

\* C24: what is taken from the three tower radius offsets and given to the delta
\* radius is the offset of the smallest magnitude, whatever the signs of the three.
C24_StolenOffsetIsSmallestMagnitude ==
    calc.fn = "steal_lowest" =>
        /\ \E k \in 1 .. 3 :
              /\ calc.lowest = calc.tower_radius[k]
              /\ \A j \in 1 .. 3 : Abs(calc.tower_radius[k]) <= Abs(calc.tower_radius[j])
        /\ calc.new_tower_radius = [k \in 1 .. 3 |-> calc.tower_radius[k] - calc.lowest]
        /\ calc.new_delta_radius = calc.delta_radius + calc.lowest

\* The temperature of the try just made is max(T * (1 - i / B), 0.01).
hc_temp_as_specified ==
    hc.temp.num * hc.annealing_tries =
        Max2(hc.max_temp * (hc.annealing_tries - hc.temp_try),
             TEMP_FLOOR * hc.annealing_tries) * hc.temp.den

\* C25: the temperature of try i of a run of B tries with maximum temperature T is
\* max(T * (1 - i / B), 0.01): never below 0.01, and never above that of the try
\* before.
C25_TemperatureFloorAndDescent ==
    /\ [](hc.temp_set => (hc_temp_as_specified /\ hc.temp.num >= TEMP_FLOOR * hc.temp.den))
    /\ [][(hc.temp_set /\ hc'.temp_set)
             => hc'.temp.num * hc.temp.den <= hc.temp.num * hc'.temp.den]_vars

\* C25, its case: a run whose temperature began above the floor and is held at it in
\* a later try.
C25_Witness ==
    /\ hc.temp_set
    /\ hc.max_temp > TEMP_FLOOR
    /\ hc.temp_try > 6
    /\ hc.temp = [num |-> TEMP_FLOOR, den |-> 1]

(***************************************************************************)
(* depth_map_print_surface() on its own: the order of its probes           *)
(***************************************************************************)
\* One scan of the bed; depth_map[] keeps what the scan wrote, and the prefix "DM" is
\* popped on every return path.
SurfaceScan(bed, fail_at, extrapolate_neighbors) ==
    LET scan == depth_map_print_surface(probe_radius, test_point, active_point,
                                        depth_map, bed, fail_at, extrapolate_neighbors, 0)
    IN  /\ depth_map' = scan.dm
        /\ calc' = [fn |-> "depth_map_print_surface", ok |-> scan.ok,
                    extrapolate_neighbors |-> extrapolate_neighbors,
                    probe_radius |-> probe_radius, test_point |-> test_point,
                    active_point |-> active_point, probed |-> scan.probed]
        /\ UNCHANGED <<probe_radius, probe_offset, test_point, active_point,
                       surface_transform, sd_file, method_prefix_idx, last, nearest,
                       bili, energy, ic, hc, foc, best_probe_calibration, pr>>

\* Beds: tilted along X; so tilted that the probe triggers early far out.
ScanBeds == {TiltedBed, [base |-> 300, ax |-> 2, ay |-> 1, dc |-> 5]}

\* Where run_probe() fails: nowhere, while priming, at the centre, at an active
\* point (7), at the probe made for a neighbour (9).
ScanFailures == {NoFail, FailAt("prime"), FailAt("center")} \cup
                {FailAtPoint(i) : i \in {7, 9}}

ScanSurface ==
    \E bed \in ScanBeds, fail_at \in ScanFailures, extrapolate_neighbors \in BOOLEAN :
        SurfaceScan(bed, fail_at, extrapolate_neighbors)

NextScan == GridConfig \/ ScanSurface

SpecScan == InitGrid /\ [][NextScan]_vars

\* The k-th probe of the last scan was made for a grid point tagged `tag`.
scan_probe_for(k, tag) == calc.active_point[calc.probed[k].i] = tag

\* The k-th probe of the last scan lies on the probe-radius circle (to the millimetre),
\* in the row of the grid point it was made for, and not at that grid point.
scan_probe_on_circle(k) ==
    LET at == calc.probed[k].at
        own == calc.test_point[calc.probed[k].i]
        rest == (calc.probe_radius * calc.probe_radius) - (at[2] * at[2])
    IN  /\ at[2] = own[2]
        /\ at # own
        /\ at[1] * at[1] <= rest
        /\ rest < (Abs(at[1]) + 1) * (Abs(at[1]) + 1)

\* C26: in a surface scan the Center point is probed first; every Active point is
\* probed at its own coordinates before any ActiveNeighbor point is handled; an
\* ActiveNeighbor point is probed only on the probe-radius circle in its row, never at
\* its own coordinates; an Inactive point is never probed.
C26_ScanOrder ==
    calc.fn = "depth_map_print_surface" =>
        /\ Len(calc.probed) > 0 =>
              /\ scan_probe_for(1, TP_CENTER)
              /\ calc.probed[1].at = calc.test_point[calc.probed[1].i]
        /\ \A k \in 2 .. Len(calc.probed) :
              /\ ~scan_probe_for(k, TP_INACTIVE)
              /\ ~scan_probe_for(k, TP_CENTER)
              /\ scan_probe_for(k, TP_ACTIVE) =>
                    calc.probed[k].at = calc.test_point[calc.probed[k].i]
              /\ scan_probe_for(k, TP_ACTIVE_NEIGHBOR) =>
                    /\ scan_probe_on_circle(k)
                    /\ \A a \in GridIdx :
                          calc.active_point[a] = TP_ACTIVE =>
                             \E j \in 2 .. (k - 1) :
                                calc.probed[j] = [i |-> a, at |-> calc.test_point[a]]

\* C26, its case: a scan that succeeded and probed for its neighbours.
C26_Witness ==
    /\ calc.fn = "depth_map_print_surface"
    /\ calc.ok
    /\ calc.extrapolate_neighbors
    /\ calc.probe_radius = 60
    /\ \E k \in 1 .. Len(calc.probed) : scan_probe_for(k, TP_ACTIVE_NEIGHBOR)
    /\ \E k \in 1 .. Len(calc.probed) : scan_probe_for(k, TP_ACTIVE)

\* C28: a live heuristic calibration whose endstop group is not active leaves the
\* trim store holding the trim it held when the run began.
C28_UnselectedTrimIsKept ==
    (hc.pc = "done" /\ ~hc.simulate_only /\ ~hc.endstop_active) =>
        ic.trim = hc.trim_on_entry

\* C29: every command handler (G29, G31 in each sub-mode, G32, M667) returns with the
\* method-prefix stack as deep as it was when the handler was entered, on every
\* return path.
C29_PrefixDepthRestored ==
    [][last'.cmd # "config" => method_prefix_idx' = method_prefix_idx]_vars

\* A pass of G32 whose "ES" section ran (its four probes succeeded) and found the
\* endstops within tolerance.
ic_es_in_tolerance_pass ==
    /\ ic.pc = "loop"
    /\ ic'.probes = ic.probes + 4
    /\ ic'.es_in_tolerance

\* The run ends in this pass, successfully, both correctors within tolerance.
ic_ends_in_tolerance ==
    /\ ic'.dr_in_tolerance
    /\ ic'.pc = "done"
    /\ ic'.reason = "tolerance"
    /\ ic'.ret

====
